---- MODULE Spec2Model ----
(***************************************************************************)
(* A model of the example-generation engine of api-example-generator       *)
(* (src/src/ApiExampleGenerator.js).                                       *)
(*                                                                         *)
(* JavaScript values are tagged records, strings are sequences of          *)
(* one-character strings (so that indexOf, substr and value[0] are         *)
(* computed as the code computes them), and graph nodes of the AMF model   *)
(* are records whose fields are the vocabulary keys the engine reads.  An  *)
(* edge of the graph is a sequence of nodes; the empty sequence is a key   *)
(* that the node does not carry.                                           *)
(***************************************************************************)
EXTENDS Integers, Sequences, FiniteSets, TLC

VARIABLES
    amf,      \* the generator's `amf` property: TRUE for a compact model
    schema,   \* the shape handed to computeExamples
    mime,     \* the representation handed to computeExamples
    opts0,    \* the options object as the caller built it
    opts,     \* the same options object, as the engine has left it
    value,    \* the literal text handed to _typeToValue
    type,     \* the datatype identifier handed to _typeToValue
    pc,       \* "ready" before the call, "done" after it
    result,   \* what the call returned (or that it threw)
    payloads, \* the payloads handed to listMedia and generatePayload(s)Examples
    xmlDoc,   \* the document the XML builder has built (or that it threw)
    log,      \* the calls made on the generator so far, oldest first
    fmt,      \* formatXml's locals while its loop over the lines runs
    stack     \* the calls of the engine that have not returned, outermost first

vars == <<amf, schema, mime, opts0, opts, value, type, pc, result, payloads, xmlDoc, log,
          fmt, stack>>

(***************************************************************************)
(* JavaScript values                                                       *)
(***************************************************************************)
Undef == [t |-> "undefined"]
Null == [t |-> "null"]
Throw == [t |-> "throw"]
Bool(b) == [t |-> "boolean", b |-> b]
Num(n) == [t |-> "number", n |-> n]
Str(s) == [t |-> "string", s |-> s]
JsObject(keys, vals) == [t |-> "object", keys |-> keys, vals |-> vals]
JsArray(items) == [t |-> "array", items |-> items]

IsUndef(v) == v.t = "undefined"
IsStr(v) == v.t = "string"

\* const v = ...: the value is computed once and then read by name.
Let(v, Rest(_)) == Rest(v)

\* ToBoolean: what `if (v)` and `!v` test.
Truthy(v) ==
    CASE v.t = "undefined" -> FALSE
      [] v.t = "null" -> FALSE
      [] v.t = "boolean" -> v.b
      [] v.t = "number" -> v.n # 0
      [] v.t = "string" -> v.s # <<>>
      [] OTHER -> TRUE

(***************************************************************************)
(* Strings                                                                 *)
(***************************************************************************)
\* s.substr(from), 0-based.
Substr(s, from) == IF from >= Len(s) THEN <<>> ELSE SubSeq(s, from + 1, Len(s))

StartsWithAt(s, sub, i) ==
    /\ i + Len(sub) <= Len(s)
    /\ \A k \in 1..Len(sub) : s[i + k] = sub[k]

\* s.indexOf(sub), 0-based, -1 when sub does not occur.
IndexOf(s, sub) ==
    LET hits == {i \in 0..Len(s) : StartsWithAt(s, sub, i)}
    IN  IF hits = {} THEN -1 ELSE CHOOSE i \in hits : \A j \in hits : i <= j

\* text.split(sep)
RECURSIVE Split(_, _)
Split(s, sep) ==
    LET at == IndexOf(s, <<sep>>)
    IN  IF at = -1 THEN <<s>> ELSE <<SubSeq(s, 1, at)>> \o Split(Substr(s, at + 1), sep)

\* The pieces lo..hi of a text, put together.
RECURSIVE Flatten(_, _, _)
Flatten(pieces, lo, hi) ==
    IF lo > hi THEN <<>>
    ELSE IF lo = hi THEN pieces[lo]
    ELSE Flatten(pieces, lo, (lo + hi) \div 2) \o Flatten(pieces, (lo + hi) \div 2 + 1, hi)

Digits == <<"0", "1", "2", "3", "4", "5", "6", "7", "8", "9">>
IsDigit(c) == \E d \in 1..10 : Digits[d] = c
DigitValue(c) == (CHOOSE d \in 1..10 : Digits[d] = c) - 1

UpperOf(c) ==
    CASE c = "a" -> "A" [] c = "b" -> "B" [] c = "c" -> "C" [] c = "d" -> "D"
      [] c = "e" -> "E" [] c = "f" -> "F" [] c = "g" -> "G" [] c = "h" -> "H"
      [] c = "i" -> "I" [] c = "j" -> "J" [] c = "k" -> "K" [] c = "l" -> "L"
      [] c = "m" -> "M" [] c = "n" -> "N" [] c = "o" -> "O" [] c = "p" -> "P"
      [] c = "q" -> "Q" [] c = "r" -> "R" [] c = "s" -> "S" [] c = "t" -> "T"
      [] c = "u" -> "U" [] c = "v" -> "V" [] c = "w" -> "W" [] c = "x" -> "X"
      [] c = "y" -> "Y" [] c = "z" -> "Z" [] OTHER -> c

RECURSIVE DigitsToNat(_, _)
DigitsToNat(s, acc) ==
    IF s = <<>> THEN acc ELSE DigitsToNat(Tail(s), acc * 10 + DigitValue(Head(s)))

\* The decimal integer numerals: an optional minus sign and one or more digits.
IsIntegerText(s) ==
    LET body == IF s # <<>> /\ Head(s) = "-" THEN Tail(s) ELSE s
    IN  body # <<>> /\ \A k \in 1..Len(body) : IsDigit(body[k])

\* isNaN(text): the texts of the model are integer numerals or not numeric at
\* all (no fractions, exponents or surrounding blanks).
IsNaNText(s) == ~IsIntegerText(s)

\* Number(text) for an integer numeral.
NumberOf(s) ==
    IF Head(s) = "-" THEN 0 - DigitsToNat(Tail(s), 0) ELSE DigitsToNat(s, 0)

RECURSIVE NatToDigits(_)
NatToDigits(n) ==
    IF n < 10 THEN <<Digits[n + 1]>> ELSE NatToDigits(n \div 10) \o <<Digits[(n % 10) + 1]>>

\* String(n) for an integer.
NumberToText(n) == IF n < 0 THEN <<"-">> \o NatToDigits(0 - n) ELSE NatToDigits(n)

\* Number(text) of a text that is not a number.
NaN == [t |-> "NaN"]

\* String(v): the text that `[${value}]`, '[' + value + ']' and
\* createTextNode(value) build from a value.
TextOf(v) ==
    CASE v.t = "string" -> v.s
      [] v.t = "number" -> NumberToText(v.n)
      [] v.t = "boolean" -> IF v.b THEN <<"t","r","u","e">> ELSE <<"f","a","l","s","e">>
      [] v.t = "NaN" -> <<"N","a","N">>
      [] v.t = "undefined" -> <<"u","n","d","e","f","i","n","e","d">>

(***************************************************************************)
(* The vocabulary (this.ns) and the Model Accessor                         *)
(***************************************************************************)
\* this.ns.w3.xmlSchema + ''
XmlSchemaNs ==
    <<"h","t","t","p",":","/","/","w","w","w",".","w","3",".","o","r","g","/",
      "2","0","0","1","/","X","M","L","S","c","h","e","m","a","#">>
\* this.ns.aml.vocabularies.shapes + ''
ShapesNs ==
    <<"h","t","t","p",":","/","/","a",".","m","l","/","v","o","c","a","b","u",
      "l","a","r","i","e","s","/","s","h","a","p","e","s","#">>
\* this.ns.aml.vocabularies.data + ''
DataNs ==
    <<"h","t","t","p",":","/","/","a",".","m","l","/","v","o","c","a","b","u",
      "l","a","r","i","e","s","/","d","a","t","a","#">>
\* The @context of a compact model: prefix and namespace.
Context ==
    << <<<<"x","s","d">>, XmlSchemaNs>>,
       <<<<"s","h","a","p","e","s">>, ShapesNs>>,
       <<<<"d","a","t","a">>, DataNs>> >>

N_boolean == <<"b","o","o","l","e","a","n">>
N_nil == <<"n","i","l">>
N_integer == <<"i","n","t","e","g","e","r">>
N_number == <<"n","u","m","b","e","r">>
N_long == <<"l","o","n","g">>
N_double == <<"d","o","u","b","l","e">>
N_float == <<"f","l","o","a","t">>
N_string == <<"s","t","r","i","n","g">>

\* this.ns.w3.xmlSchema.<name> and this.ns.aml.vocabularies.shapes.<name>
XmlSchema(name) == XmlSchemaNs \o name
Shapes(name) == ShapesNs \o name

\* this._getAmfKey(iri): with an expanded model the identifier is returned as
\* it is; with a compact model a namespace becomes its prefix and an
\* identifier of a namespace becomes prefix:name.
_getAmfKey(iri) ==
    IF ~amf THEN iri
    ELSE LET hashIndex == IndexOf(iri, <<"#">>)
             hashProperty == SubSeq(iri, 1, hashIndex + 1)
             same == {k \in 1..Len(Context) : Context[k][2] = iri}
             inNs == {k \in 1..Len(Context) : Context[k][2] = hashProperty}
         IN  IF same # {} THEN Context[CHOOSE k \in same : TRUE][1]
             ELSE IF inNs # {}
             THEN Context[CHOOSE k \in inNs : TRUE][1] \o <<":">>
                      \o Substr(iri, hashIndex + 1)
             ELSE iri

\* this._hasType(node, T)
_hasType(node, T) == T \in node.types

(***************************************************************************)
(* Value Coercion                                                          *)
(***************************************************************************)
\* _typeToValue(value, type).  The switch lists, for each kind, the compact
\* and the full key of both namespaces; the compact xmlSchema key of `number`
\* is not among its cases.
_typeToValue(v, ty) ==
    LET keys(name) ==
            {Str(_getAmfKey(XmlSchema(name))), Str(_getAmfKey(Shapes(name))),
             Str(XmlSchema(name)), Str(Shapes(name))}
        numberKeys ==
            {Str(XmlSchema(N_number)), Str(_getAmfKey(Shapes(N_number))),
             Str(Shapes(N_number))}
    IN  IF ty \in keys(N_boolean)
        THEN IF ~IsUndef(v) THEN Bool(v = Str(<<"t","r","u","e">>)) ELSE v
        ELSE IF ty \in keys(N_nil)
        THEN Null
        ELSE IF ty \in keys(N_integer) \cup numberKeys \cup keys(N_long)
                        \cup keys(N_double) \cup keys(N_float)
        THEN IF Truthy(v)
             THEN IF IsNaNText(v.s) THEN Num(0) ELSE Num(NumberOf(v.s))
             ELSE Num(0)
        ELSE IF Truthy(v) THEN v ELSE Str(<<>>)

\* _computeScalarType(shape): the datatype's local name, first letter in
\* upper case.  The identifiers of the model have a non-empty local name.
_computeScalarType(shape) ==
    IF shape.datatype = <<>> THEN Undef
    ELSE LET id0 == shape.datatype[1]
             id1 == IF IndexOf(id0, XmlSchemaNs) # -1
                    THEN Substr(id0, Len(XmlSchemaNs)) ELSE id0
             id2 == IF IndexOf(id1, ShapesNs) # -1
                    THEN Substr(id1, Len(ShapesNs)) ELSE id1
             index == IndexOf(id2, <<":">>)
             id3 == IF index # -1 THEN Substr(id2, index) ELSE id2
         IN  Str(<<UpperOf(id3[1])>> \o Substr(id3, 1))

(***************************************************************************)
(* JSON.stringify(value, null, 2) and JSON.parse                           *)
(***************************************************************************)
RECURSIVE Spaces(_)
Spaces(n) == IF n <= 0 THEN <<>> ELSE <<" ">> \o Spaces(n - 1)

RECURSIVE EscapeJson(_)
EscapeJson(s) ==
    IF s = <<>> THEN <<>>
    ELSE (CASE Head(s) = "\"" -> <<"\\", "\"">>
            [] Head(s) = "\\" -> <<"\\", "\\">>
            [] Head(s) = "\n" -> <<"\\", "n">>
            [] OTHER -> <<Head(s)>>) \o EscapeJson(Tail(s))

QuoteJson(s) == <<"\"">> \o EscapeJson(s) \o <<"\"">>

\* obj[key] = val: a new key is appended, a key the object has keeps its
\* place.  (The keys of the model are not array indices, which JavaScript
\* would order first.)
ObjSet(obj, key, val) ==
    LET at == {k \in 1..Len(obj.keys) : obj.keys[k] = key}
    IN  IF at = {}
        THEN JsObject(Append(obj.keys, key), Append(obj.vals, val))
        ELSE JsObject(obj.keys, [obj.vals EXCEPT ![CHOOSE k \in at : TRUE] = val])

RECURSIVE Stringify(_, _)
RECURSIVE StringifyItems(_, _, _)
RECURSIVE StringifyMembers(_, _, _, _)
\* The lines of an array's items, from item k on, at indentation `ind`.
StringifyItems(items, k, ind) ==
    IF k > Len(items) THEN <<>>
    ELSE Spaces(ind) \o Stringify(items[k], ind)
           \o (IF k < Len(items) THEN <<",">> ELSE <<>>) \o <<"\n">>
           \o StringifyItems(items, k + 1, ind)
\* The lines of an object's members, from member k on, at indentation `ind`.
StringifyMembers(keys, vals, k, ind) ==
    IF k > Len(keys) THEN <<>>
    ELSE Spaces(ind) \o QuoteJson(keys[k]) \o <<":", " ">> \o Stringify(vals[k], ind)
           \o (IF k < Len(keys) THEN <<",">> ELSE <<>>) \o <<"\n">>
           \o StringifyMembers(keys, vals, k + 1, ind)
\* JSON.stringify(v, null, 2) of a value nested at indentation `ind`.
Stringify(v, ind) ==
    CASE v.t = "null" -> <<"n","u","l","l">>
      [] v.t = "boolean" -> IF v.b THEN <<"t","r","u","e">> ELSE <<"f","a","l","s","e">>
      [] v.t = "number" -> NumberToText(v.n)
      [] v.t = "string" -> QuoteJson(v.s)
      [] v.t = "array" ->
            IF v.items = <<>> THEN <<"[", "]">>
            ELSE <<"[", "\n">> \o StringifyItems(v.items, 1, ind + 2)
                   \o Spaces(ind) \o <<"]">>
      [] v.t = "object" ->
            IF v.keys = <<>> THEN <<"{", "}">>
            ELSE <<"{", "\n">> \o StringifyMembers(v.keys, v.vals, 1, ind + 2)
                   \o Spaces(ind) \o <<"}">>

JSONstringify(v) == Stringify(v, 0)

IsWs(c) == c \in {" ", "\n", "\t", "\r"}

RECURSIVE SkipWs(_, _)
SkipWs(s, i) == IF i <= Len(s) /\ IsWs(s[i]) THEN SkipWs(s, i + 1) ELSE i

RECURSIVE ScanDigits(_, _)
ScanDigits(s, i) == IF i <= Len(s) /\ IsDigit(s[i]) THEN ScanDigits(s, i + 1) ELSE i

\* From the character after an opening quote to the one after the closing
\* quote; 0 when the string does not end.
RECURSIVE ScanString(_, _)
ScanString(s, i) ==
    IF i > Len(s) THEN 0
    ELSE IF s[i] = "\"" THEN i + 1
    ELSE IF s[i] = "\\" THEN (IF i + 1 <= Len(s) THEN ScanString(s, i + 2) ELSE 0)
    ELSE ScanString(s, i + 1)

ParseFail == [ok |-> FALSE, next |-> 0, kind |-> "error"]
Parsed(next, kind) == [ok |-> TRUE, next |-> next, kind |-> kind]

RECURSIVE ParseValue(_, _)
RECURSIVE ParseElements(_, _)
RECURSIVE ParseMembers(_, _)
\* The elements of an array from position i, after '[' or ','.
ParseElements(s, i) ==
    LET r == ParseValue(s, i)
        j == SkipWs(s, r.next)
    IN  IF ~r.ok \/ j > Len(s) THEN ParseFail
        ELSE IF s[j] = "]" THEN Parsed(j + 1, "object")
        ELSE IF s[j] = "," THEN ParseElements(s, j + 1)
        ELSE ParseFail
\* The members of an object from position i, after '{' or ','.
ParseMembers(s, i) ==
    LET j == SkipWs(s, i)
        k == IF j <= Len(s) /\ s[j] = "\"" THEN ScanString(s, j + 1) ELSE 0
        c == IF k = 0 THEN 0 ELSE SkipWs(s, k)
        r == IF c # 0 /\ c <= Len(s) /\ s[c] = ":" THEN ParseValue(s, c + 1) ELSE ParseFail
        e == SkipWs(s, r.next)
    IN  IF ~r.ok \/ e > Len(s) THEN ParseFail
        ELSE IF s[e] = "}" THEN Parsed(e + 1, "object")
        ELSE IF s[e] = "," THEN ParseMembers(s, e + 1)
        ELSE ParseFail
\* One JSON value from position i; `kind` is what typeof gives for it.
ParseValue(s, i) ==
    LET j == SkipWs(s, i)
    IN  IF j > Len(s) THEN ParseFail
        ELSE IF s[j] = "{"
        THEN (LET k == SkipWs(s, j + 1)
              IN  IF k <= Len(s) /\ s[k] = "}" THEN Parsed(k + 1, "object")
                  ELSE ParseMembers(s, j + 1))
        ELSE IF s[j] = "["
        THEN (LET k == SkipWs(s, j + 1)
              IN  IF k <= Len(s) /\ s[k] = "]" THEN Parsed(k + 1, "object")
                  ELSE ParseElements(s, j + 1))
        ELSE IF s[j] = "\""
        THEN (LET k == ScanString(s, j + 1)
              IN  IF k = 0 THEN ParseFail ELSE Parsed(k, "string"))
        ELSE IF StartsWithAt(s, <<"t","r","u","e">>, j - 1) THEN Parsed(j + 4, "boolean")
        ELSE IF StartsWithAt(s, <<"f","a","l","s","e">>, j - 1) THEN Parsed(j + 5, "boolean")
        ELSE IF StartsWithAt(s, <<"n","u","l","l">>, j - 1) THEN Parsed(j + 4, "object")
        ELSE LET d == IF s[j] = "-" THEN j + 1 ELSE j
                 k == ScanDigits(s, d)
             IN  IF k = d \/ (s[d] = "0" /\ k > d + 1) THEN ParseFail
                 ELSE Parsed(k, "number")

\* typeof JSON.parse(text), or "error" when JSON.parse throws.  (Numbers of
\* the model's texts are integers.)
JSONparseTypeof(s) ==
    LET r == ParseValue(s, 1)
    IN  IF r.ok /\ SkipWs(s, r.next) = Len(s) + 1 THEN r.kind ELSE "error"

\* text.trim()
RECURSIVE TrimEnd(_)
TrimEnd(s) == IF s # <<>> /\ IsWs(s[Len(s)]) THEN TrimEnd(SubSeq(s, 1, Len(s) - 1)) ELSE s
Trim(s) == TrimEnd(Substr(s, SkipWs(s, 1) - 1))

(***************************************************************************)
(* Graph nodes                                                             *)
(*                                                                         *)
(* A node carries the keys the engine reads: `types` (@type), `name`       *)
(* (shacl:name), `coreName` (core:name), `examples`, `jsonSchema` (the     *)
(* source-mapped parsed JSON schema), `items`, `anyOf`, `property`,        *)
(* `datatype`, `defaultValue` (the data:value of the shacl:defaultValue    *)
(* node), `raw` (document:raw, else shacl:raw), `structuredValue` and      *)
(* `sources` (the source map's tracked-element linkage),                   *)
(* `xmlSerialization` and `defaultValueStr`.  References are resolved: a   *)
(* node holds the nodes it points at.                                      *)
(***************************************************************************)
NoSources == [sm |-> FALSE, tracked |-> FALSE, value |-> Undef]
Node ==
    [types |-> {}, name |-> Undef, coreName |-> Undef, examples |-> <<>>,
     jsonSchema |-> Undef, items |-> <<>>, anyOf |-> <<>>, property |-> <<>>,
     datatype |-> <<>>, defaultValue |-> <<>>, raw |-> Undef,
     structuredValue |-> <<>>, sources |-> NoSources,
     xmlSerialization |-> <<>>, defaultValueStr |-> Undef]

\* A node of a structured value (the data vocabulary): `value` holds the
\* typed literal of a scalar, `props` the data-prefixed keys of an object in
\* key order, `member` the rdfs:member list of an array.
DataNode ==
    [types |-> {}, value |-> <<>>, datatype |-> <<>>, props |-> <<>>, member |-> <<>>]

S_json == <<"j","s","o","n">>
S_xml == <<"x","m","l">>
UNKNOWN_TYPE == <<"u","n","k","n","o","w","n","-","t","y","p","e">>

(***************************************************************************)
(* The view model                                                          *)
(***************************************************************************)
\* const result = {}: a key that is not set is undefined (`values`: empty).
ViewModel ==
    [t |-> "viewmodel", hasRaw |-> Undef, hasTitle |-> Undef, hasUnion |-> Undef,
     value |-> Undef, title |-> Undef, raw |-> Undef, values |-> <<>>,
     isScalar |-> Undef]

(***************************************************************************)
(* JSON Example Builder: the structured value of an author example         *)
(***************************************************************************)
\* _getTypedValue(structure)
_getTypedValue(structure) ==
    IF structure.value = <<>> THEN Undef
    ELSE LET shape == structure.value[1]
             v == shape.value
             dt == IF Truthy(shape.type) THEN shape.type
                   ELSE IF structure.datatype # <<>> THEN Str(structure.datatype[1])
                   ELSE Undef
         IN  IF ~Truthy(v) THEN v
             ELSE IF ~Truthy(dt) THEN v
             ELSE _typeToValue(v, dt)

\* key.replace(prefix, ''): the first occurrence is removed.
RemoveFirst(s, sub) ==
    LET at == IndexOf(s, sub)
    IN  IF at = -1 THEN s ELSE SubSeq(s, 1, at) \o Substr(s, at + Len(sub))

\* The object key _jsonFromStructureValue derives from a data key.  (The
\* names of the model hold no percent-escapes for decodeURIComponent.)
JsonKeyOf(key, resolvedPrefix) ==
    LET k == RemoveFirst(key, resolvedPrefix)
    IN  IF k # <<>> /\ k[1] = ":" THEN Substr(k, 1) ELSE k

RECURSIVE _jsonFromStructure(_)
RECURSIVE _jsonFromStructureValue(_, _, _, _, _)
RECURSIVE JsonFromMembers(_, _, _)
RECURSIVE JsonFromKeys(_, _, _, _)
\* _jsonFromStructureValue(value, obj, isArray, key, resolvedPrefix): obj
\* as the call leaves it.
_jsonFromStructureValue(v, obj, isArray, key, resolvedPrefix) ==
    LET tmp == _jsonFromStructure(v)
    IN  IF IsUndef(tmp) THEN obj
        ELSE IF isArray THEN JsArray(Append(obj.items, tmp))
        ELSE ObjSet(obj, JsonKeyOf(key, resolvedPrefix), tmp)
\* The loop over structure[rdfs:member].
JsonFromMembers(items, i, obj) ==
    IF i > Len(items) THEN obj
    ELSE JsonFromMembers(items, i + 1,
             _jsonFromStructureValue(items[i], obj, TRUE, <<>>, <<>>))
\* Object.keys(structure).forEach(...) over the data-prefixed keys.
JsonFromKeys(props, i, obj, isArray) ==
    IF i > Len(props) THEN obj
    ELSE LET resolvedPrefix == _getAmfKey(DataNs)
         IN  JsonFromKeys(props, i + 1,
                 IF IndexOf(props[i].key, resolvedPrefix) # 0 THEN obj
                 ELSE _jsonFromStructureValue(props[i].node, obj, isArray,
                                              props[i].key, resolvedPrefix),
                 isArray)
_jsonFromStructure(structure) ==
    IF _hasType(structure, "Scalar") THEN _getTypedValue(structure)
    ELSE IF _hasType(structure, "Object")
    THEN JsonFromKeys(structure.props, 1, JsObject(<<>>, <<>>), FALSE)
    ELSE IF _hasType(structure, "Array")
    THEN IF structure.member # <<>>
         THEN JsonFromMembers(structure.member, 1, JsArray(<<>>))
         ELSE JsonFromKeys(structure.props, 1, JsArray(<<>>), TRUE)
    ELSE Undef

(***************************************************************************)
(* Scalar/Object/Array Synthesizer (JSON)                                  *)
(***************************************************************************)
\* _extractExampleRawValue(example): `example` is the examples edge.
_extractExampleRawValue(ex) ==
    LET first == ex[1]
    IN  IF _hasType(first, "NamedExamples")
        THEN IF first.examples = <<>> THEN Undef ELSE first.examples[1].raw
        ELSE first.raw

\* _getTypeScalarValue(range)
_getTypeScalarValue(range) ==
    IF range.defaultValue # <<>> THEN range.defaultValue[1]
    ELSE IF range.examples # <<>> THEN _extractExampleRawValue(range.examples)
    ELSE Undef

\* The zero-value table of _computeJsonScalarValue.
ZeroValue(ty) ==
    IF ty \in {Str(<<"N","u","m","b","e","r">>), Str(<<"I","n","t","e","g","e","r">>),
               Str(<<"L","o","n","g">>), Str(<<"F","l","o","a","t">>),
               Str(<<"D","o","u","b","l","e">>)}
    THEN Num(0)
    ELSE IF ty = Str(<<"B","o","o","l","e","a","n">>) THEN Bool(FALSE)
    ELSE IF ty \in {Str(<<"N","i","l">>), Str(<<"N","u","l","l">>)} THEN Null
    ELSE Str(<<>>)

\* _computeJsonScalarValue(range)
_computeJsonScalarValue(range) ==
    LET v == _getTypeScalarValue(range)
    IN  IF ~Truthy(v) THEN ZeroValue(_computeScalarType(range))
        ELSE IF range.datatype = <<>> THEN v
        ELSE _typeToValue(v, Str(range.datatype[1]))

RECURSIVE _jsonExampleFromProperties(_)
RECURSIVE JsonFromProperties(_, _, _)
RECURSIVE JsonFromRangeExamples(_, _, _, _)
RECURSIVE _computeJsonProperyValue(_, _)
RECURSIVE _computeJsonUnionValue(_, _)
RECURSIVE JsonUnionFrom(_, _, _)
RECURSIVE _computeJsonObjectValue(_)
RECURSIVE _computeJsonArrayValue(_)
RECURSIVE JsonArrayFrom(_, _, _)

\* examples.forEach(...) of _jsonExampleFromProperties: every example of the
\* range writes result[name] in turn.
JsonFromRangeExamples(examples, i, name, obj) ==
    IF i > Len(examples) THEN obj
    ELSE JsonFromRangeExamples(examples, i + 1, name,
             IF examples[i].structuredValue = <<>> THEN ObjSet(obj, name, Str(<<>>))
             ELSE LET data == _jsonFromStructure(examples[i].structuredValue[1])
                  IN  IF IsUndef(data) THEN obj ELSE ObjSet(obj, name, data))
\* The loop of _jsonExampleFromProperties from property i on.
JsonFromProperties(properties, i, obj) ==
    IF i > Len(properties) THEN obj
    ELSE LET property == properties[i]
             name == property.name
             range == property.range
         IN  JsonFromProperties(properties, i + 1,
                 IF ~Truthy(name) THEN obj
                 ELSE IF range = <<>> THEN obj
                 ELSE IF range[1].examples # <<>>
                 THEN JsonFromRangeExamples(range[1].examples, 1, name.s, obj)
                 ELSE LET v == _computeJsonProperyValue(range[1], Undef)
                      IN  ObjSet(obj, name.s, IF IsUndef(v) THEN Str(<<>>) ELSE v))
_jsonExampleFromProperties(properties) ==
    JsonFromProperties(properties, 1, JsObject(<<>>, <<>>))

_computeJsonProperyValue(range, typeName) ==
    IF _hasType(range, "ScalarShape") THEN _computeJsonScalarValue(range)
    ELSE IF _hasType(range, "UnionShape") THEN _computeJsonUnionValue(range, typeName)
    ELSE IF _hasType(range, "NodeShape") THEN _computeJsonObjectValue(range)
    ELSE IF _hasType(range, "ArrayShape") THEN _computeJsonArrayValue(range)
    ELSE IF _hasType(range, "NilShape") THEN Null
    ELSE Undef

\* The loop of _computeJsonUnionValue from alternative i on.
JsonUnionFrom(list, i, typeName) ==
    IF i > Len(list) THEN Undef
    ELSE LET item == list[i]
         IN  IF Truthy(typeName) /\ typeName # item.name
             THEN JsonUnionFrom(list, i + 1, typeName)
             ELSE IF _hasType(item, "NodeShape") /\ item.property # <<>>
             THEN _jsonExampleFromProperties(item.property)
             ELSE JsonUnionFrom(list, i + 1, typeName)
_computeJsonUnionValue(range, typeName) ==
    IF range.anyOf = <<>> THEN Undef ELSE JsonUnionFrom(range.anyOf, 1, typeName)

_computeJsonObjectValue(range) ==
    IF range.property # <<>> THEN _jsonExampleFromProperties(range.property) ELSE Undef

\* The loop of _computeJsonArrayValue from item i on.
JsonArrayFrom(items, i, acc) ==
    IF i > Len(items) THEN JsArray(acc)
    ELSE LET v == _computeJsonProperyValue(items[i], Undef)
         IN  JsonArrayFrom(items, i + 1, IF IsUndef(v) THEN acc ELSE Append(acc, v))
_computeJsonArrayValue(range) ==
    IF range.items = <<>> THEN Undef ELSE JsonArrayFrom(range.items, 1, <<>>)

(***************************************************************************)
(* Tree Builder: the DOM document the XML builder writes into              *)
(*                                                                         *)
(* A document is the list of the nodes created in it, in creation order; a *)
(* node is referred to by its position, and `root` is the document element *)
(* (0: none).  An operation gives the document as it leaves it, or Throw.  *)
(***************************************************************************)
Alpha ==
    {"a","b","c","d","e","f","g","h","i","j","k","l","m","n","o","p","q","r","s",
     "t","u","v","w","x","y","z","A","B","C","D","E","F","G","H","I","J","K","L",
     "M","N","O","P","Q","R","S","T","U","V","W","X","Y","Z"}

\* The Name production of XML, over the characters of the model: what
\* createElement, createDocument and setAttribute accept as a name.
IsXmlName(name) ==
    /\ name # <<>>
    /\ name[1] \in Alpha \cup {"_", ":"}
    /\ \A k \in 1..Len(name) : name[k] \in Alpha \cup {"_", ":", "-", "."} \/ IsDigit(name[k])

ElementNode(name) ==
    [kind |-> "element", name |-> name, attrs |-> <<>>, kids |-> <<>>, text |-> <<>>]
TextNode(text) ==
    [kind |-> "text", name |-> <<>>, attrs |-> <<>>, kids |-> <<>>, text |-> text]

\* document.implementation.createDocument('', name, null): an empty name
\* gives a document without a document element.
createDocument(name) ==
    IF name = <<>> THEN [t |-> "document", nodes |-> <<>>, root |-> 0]
    ELSE IF ~IsXmlName(name) THEN Throw
    ELSE [t |-> "document", nodes |-> <<ElementNode(name)>>, root |-> 1]

\* doc.createElement(name) and doc.createTextNode(text): the new node is the
\* last of the document.
createElement(doc, name) ==
    IF ~IsXmlName(name) THEN Throw
    ELSE [doc EXCEPT !.nodes = Append(@, ElementNode(name))]
createTextNode(doc, text) == [doc EXCEPT !.nodes = Append(@, TextNode(text))]
Created(doc) == Len(doc.nodes)

\* node.appendChild(child): the child becomes the last child of the node; a
\* node that is null has no appendChild.
appendChild(doc, node, child) ==
    IF node = 0 \/ child = 0 THEN Throw
    ELSE [doc EXCEPT !.nodes[node].kids =
                        Append(SelectSeq(@, LAMBDA k : k # child), child)]

\* node.setAttribute(name, value)
setAttribute(doc, node, name, val) ==
    IF node = 0 \/ ~IsXmlName(name) THEN Throw
    ELSE LET attrs == doc.nodes[node].attrs
             at == {k \in 1..Len(attrs) : attrs[k].name = name}
             attr == [name |-> name, value |-> val]
         IN  [doc EXCEPT !.nodes[node].attrs =
                            IF at = {} THEN Append(attrs, attr)
                            ELSE [attrs EXCEPT ![CHOOSE k \in at : TRUE] = attr]]

\* new XMLSerializer().serializeToString(doc)
EscapeXml(s, inAttribute) ==
    Flatten([k \in 1..Len(s) |->
                CASE s[k] = "&" -> <<"&","a","m","p",";">>
                  [] s[k] = "<" -> <<"&","l","t",";">>
                  [] s[k] = ">" -> <<"&","g","t",";">>
                  [] s[k] = "\"" /\ inAttribute -> <<"&","q","u","o","t",";">>
                  [] OTHER -> <<s[k]>>], 1, Len(s))

RECURSIVE SerializeNode(_, _)
RECURSIVE SerializeNodes(_, _, _)
RECURSIVE SerializeAttributes(_, _)
SerializeAttributes(attrs, k) ==
    IF k > Len(attrs) THEN <<>>
    ELSE <<" ">> \o attrs[k].name \o <<"=", "\"">> \o EscapeXml(attrs[k].value, TRUE)
           \o <<"\"">> \o SerializeAttributes(attrs, k + 1)
SerializeNodes(doc, kids, k) ==
    IF k > Len(kids) THEN <<>>
    ELSE SerializeNode(doc, kids[k]) \o SerializeNodes(doc, kids, k + 1)
SerializeNode(doc, id) ==
    LET node == doc.nodes[id]
    IN  IF node.kind = "text" THEN EscapeXml(node.text, FALSE)
        ELSE <<"<">> \o node.name \o SerializeAttributes(node.attrs, 1)
               \o (IF node.kids = <<>> THEN <<"/", ">">>
                   ELSE <<">">> \o SerializeNodes(doc, node.kids, 1)
                          \o <<"<", "/">> \o node.name \o <<">">>)
serializeToString(doc) ==
    IF doc.root = 0 THEN <<>> ELSE SerializeNode(doc, doc.root)

(***************************************************************************)
(* formatXml                                                               *)
(***************************************************************************)
\* xml.replace(/(>)\s*(<)(\/*)/g, '$1\n$2$3'): a line break replaces the
\* white space between a '>' and the '<' that follows it.
BreakBetweenTags(s) ==
    LET tagFollows(i) == LET j == SkipWs(s, i + 1) IN j <= Len(s) /\ s[j] = "<"
        inGap(i) == \E a \in 1..(i - 1) :
                       s[a] = ">" /\ tagFollows(a) /\ \A k \in (a + 1)..i : IsWs(s[k])
    IN  Flatten([i \in 1..Len(s) |->
                    IF inGap(i) THEN <<>>
                    ELSE IF s[i] = ">" /\ tagFollows(i) THEN <<">", "\n">>
                    ELSE <<s[i]>>], 1, Len(s))

\* lines.join('\n')
RECURSIVE Join(_)
Join(lines) ==
    IF Len(lines) = 1 THEN lines[1] ELSE lines[1] \o <<"\n">> \o Join(Tail(lines))

RECURSIVE SkipSpaces(_, _)
SkipSpaces(s, i) == IF i <= Len(s) /\ s[i] = " " THEN SkipSpaces(s, i + 1) ELSE i

\* / *(.*) +\n/ -> '$1\n' on one line: a line that ends in a space loses its
\* leading spaces and its last space.
TrimLine(line) ==
    IF line = <<>> \/ line[Len(line)] # " " THEN line
    ELSE LET rest == Substr(line, SkipSpaces(line, 1) - 1)
         IN  IF rest = <<>> THEN rest ELSE SubSeq(rest, 1, Len(rest) - 1)

\* /(<.+>)(.+\n)/ -> '$1\n$2' on one line: a line break goes after the last
\* '>' that closes a tag begun at the first '<' and has text after it.
SplitAfterTag(line) ==
    LET lt == IndexOf(line, <<"<">>) + 1
        at == {p \in 1..Len(line) : line[p] = ">" /\ p > lt + 1 /\ p < Len(line)}
        last == CHOOSE p \in at : \A q \in at : q <= p
    IN  IF lt = 0 \/ at = {} THEN line
        ELSE SubSeq(line, 1, last) \o <<"\n">> \o Substr(line, last)

\* A replacement whose pattern ends in \n and whose `.` does not cross a
\* line break rewrites the lines that a line break ends, one by one; the
\* text after the last line break is not touched.
EachLine(lines, trim) ==
    [k \in 1..Len(lines) |->
        IF k = Len(lines) THEN lines[k]
        ELSE IF trim THEN TrimLine(lines[k]) ELSE SplitAfterTag(lines[k])]

\* The type of a line: single, closing, opening or other.
LineType(ln) ==
    LET n == Len(ln)
    IN  IF \E i \in 1..n : \E j \in (i + 2)..(n - 1) :
              ln[i] = "<" /\ ln[j] = "/" /\ ln[j + 1] = ">"
        THEN "single"
        ELSE IF \E i \in 1..(n - 1) : \E j \in (i + 3)..n :
              ln[i] = "<" /\ ln[i + 1] = "/" /\ ln[j] = ">"
        THEN "closing"
        ELSE IF \E i \in 1..(n - 1) : \E j \in (i + 2)..n :
              ln[i] = "<" /\ ln[i + 1] # "!" /\ ln[j] = ">"
        THEN "opening"
        ELSE "other"

\* const transitions = {...}, with 'opening->closing': -2
transitions_closingLowers(from, to) ==
    IF from = "opening" /\ to \in {"single", "opening", "other"} THEN 2
    ELSE IF to = "closing" THEN -2
    ELSE 0

\* const transitions = {...}
transitions(from, to) ==
    IF from = "opening" /\ to \in {"single", "opening", "other"} THEN 2
    ELSE IF to = "closing" /\ from \in {"single", "closing", "other"} THEN -2
    ELSE 0

\* The loop over the lines, from line i on.
RECURSIVE FormatLines(_, _, _, _, _)
FormatLines(lines, i, formatted, indent, lastType) ==
    IF i > Len(lines) THEN formatted
    ELSE LET ln == lines[i]
             ty == LineType(ln)
             to == indent + transitions(lastType, ty)
         IN  IF IndexOf(ln, <<"<","?","x","m","l">>) # -1
             THEN FormatLines(lines, i + 1, formatted \o ln \o <<"\n">>, indent, lastType)
             ELSE FormatLines(lines, i + 1,
                      IF lastType = "opening" /\ ty = "closing"
                      THEN SubSeq(formatted, 1, Len(formatted) - 1) \o ln \o <<"\n">>
                      ELSE formatted \o Spaces(to) \o ln \o <<"\n">>,
                      to, ty)

\* formatXml(xml)
formatXml(xml) ==
    LET broken == BreakBetweenTags(xml)
        trimmed == Join(EachLine(Split(broken, "\n"), TRUE))
        split == Join(EachLine(Split(trimmed, "\n"), FALSE))
    IN  FormatLines(Split(split, "\n"), 1, <<>>, 0, "other")

XmlDeclaration ==
    <<"<","?","x","m","l"," ","v","e","r","s","i","o","n","=","\"","1",".","0","\"",
      " ","e","n","c","o","d","i","n","g","=","\"","U","T","F","-","8","\"","?",">">>

(***************************************************************************)
(* XML Example Builder                                                     *)
(***************************************************************************)
\* A step on the document that follows one that may have thrown.
Then(doc, Rest(_)) == IF doc = Throw THEN Throw ELSE Rest(doc)

\* property[rKey] and property['@type'] of what _xmlProcessProperty is
\* given: a property with its range, or a shape (an array item, a union
\* alternative), which has no range.
RangeOf(property) == IF "range" \in DOMAIN property THEN property.range ELSE <<>>
TypesOf(property) == IF "types" \in DOMAIN property THEN property.types ELSE {}

\* _normalizeXmlTagName(name): name.replace(/[^a-zA-Z0-9-_]/g, '')
_normalizeXmlTagName(name) ==
    SelectSeq(name, LAMBDA c : c \in Alpha \cup {"-", "_"} \/ IsDigit(c))

\* _dataNameFromKey(key)
_dataNameFromKey(key) ==
    IF IndexOf(key, <<"#">>) # -1 THEN Substr(key, IndexOf(key, <<"#">>) + 1)
    ELSE IF IndexOf(key, <<":">>) # -1 THEN Substr(key, IndexOf(key, <<":">>) + 1)
    ELSE key

\* _readDataType(shape)
_readDataType(shape) ==
    IF shape.datatype = <<>> THEN Undef ELSE Str(_dataNameFromKey(shape.datatype[1]))

\* Number(value) of a literal that may be absent.
ToNumber(v) ==
    IF IsUndef(v) THEN NaN
    ELSE IF v.s = <<>> THEN Num(0)
    ELSE IF IsNaNText(v.s) THEN NaN ELSE Num(NumberOf(v.s))

\* _computeStructuredExampleValue(model) for a Scalar data node: its switch
\* lists the full identifiers only; the [0] of an absent data:value throws.
_computeStructuredExampleValue(model) ==
    IF model.value = <<>> THEN Throw
    ELSE LET mValue == model.value[1]
             ty == IF Truthy(mValue.type) THEN mValue.type
                   ELSE IF model.datatype # <<>> THEN Str(model.datatype[1])
                   ELSE Undef
         IN  IF ty = Str(XmlSchema(N_boolean))
             THEN Bool(mValue.value = Str(<<"t","r","u","e">>))
             ELSE IF ty \in {Str(XmlSchema(N_integer)), Str(XmlSchema(N_long)),
                             Str(XmlSchema(N_double)), Str(XmlSchema(N_float)),
                             Str(Shapes(N_number))}
             THEN ToNumber(mValue.value)
             ELSE mValue.value

RECURSIVE _xmlProcessDataProperty(_, _, _, _)
RECURSIVE DataItemsFrom(_, _, _, _, _)
RECURSIVE DataKeysFrom(_, _, _, _)

\* _processDataArrayProperties(doc, node, property, name): the length of an
\* absent member list throws.
_processDataArrayProperties(doc, node, property, name) ==
    LET n == Len(name)
        childName == IF n >= 2 /\ SubSeq(name, n - 1, n) = <<"e", "s">>
                     THEN SubSeq(name, 1, n - 2)
                     ELSE IF n >= 1 /\ name[n] = "s" THEN SubSeq(name, 1, n - 1)
                     ELSE name
    IN  IF property.member = <<>> THEN Throw
        ELSE DataItemsFrom(doc, node, property.member, 1, childName)
\* Its loop from item i on.
DataItemsFrom(doc, node, items, i, childName) ==
    IF i > Len(items) THEN doc
    ELSE Then(_xmlProcessDataProperty(doc, node, items[i], childName),
              LAMBDA d : DataItemsFrom(d, node, items, i + 1, childName))

\* _processDataObjectProperties(doc, node, property), and the loop over the
\* keys of _xmlFromStructure: from key i on.
DataKeysFrom(doc, node, props, i) ==
    IF i > Len(props) THEN doc
    ELSE IF IndexOf(props[i].key, _getAmfKey(DataNs)) # 0
    THEN DataKeysFrom(doc, node, props, i + 1)
    ELSE Then(_xmlProcessDataProperty(doc, node, props[i].node,
                                      _dataNameFromKey(props[i].key)),
              LAMBDA d : DataKeysFrom(d, node, props, i + 1))
_processDataObjectProperties(doc, node, property) ==
    DataKeysFrom(doc, node, property.props, 1)

\* _xmlProcessDataProperty(doc, node, property, name)
_xmlProcessDataProperty(doc, node, property, name) ==
    IF name = <<>> THEN doc
    ELSE Then(createElement(doc, _normalizeXmlTagName(name)),
              LAMBDA d1 :
                  LET element == Created(d1)
                  IN  IF _hasType(property, "Scalar")
                      THEN LET v == _computeStructuredExampleValue(property)
                           IN  IF v = Throw THEN Throw
                               ELSE IF IsUndef(v) THEN appendChild(d1, node, element)
                               ELSE appendChild(
                                        appendChild(createTextNode(d1, TextOf(v)),
                                                    element, element + 1),
                                        node, element)
                      ELSE IF _hasType(property, "Array")
                      THEN Then(_processDataArrayProperties(
                                    d1, element, property, _normalizeXmlTagName(name)),
                                LAMBDA d2 : appendChild(d2, node, element))
                      ELSE IF _hasType(property, "Object")
                      THEN Then(_processDataObjectProperties(d1, element, property),
                                LAMBDA d2 : appendChild(d2, node, element))
                      ELSE appendChild(d1, node, element))

\* The document _xmlFromStructure(structure, opts) builds.
XmlDocumentFromStructure(structure, o) ==
    LET typeName == IF Truthy(o.typeName) THEN o.typeName.s ELSE UNKNOWN_TYPE
    IN  Then(createDocument(_normalizeXmlTagName(typeName)),
             LAMBDA doc : DataKeysFrom(doc, doc.root, structure.props, 1))

\* What the builder returns for the document it has built.
XmlText(doc, format) ==
    IF doc = Throw THEN Throw
    ELSE IF format THEN Str(formatXml(XmlDeclaration \o serializeToString(doc)))
    ELSE Str(serializeToString(doc))

\* _xmlFromStructure(structure, opts)
_xmlFromStructure(structure, o) == XmlText(XmlDocumentFromStructure(structure, o), TRUE)

\* The xml serialization node of a range.
XmlSerialization == [xmlName |-> Undef, xmlAttribute |-> Undef, xmlWrapped |-> Undef]

\* _xmlFromExamples(doc, node, example, propertyName)
_xmlFromExamples(doc, node, example, propertyName) ==
    IF example.structuredValue = <<>> THEN doc
    ELSE _xmlProcessDataProperty(doc, node, example.structuredValue[1],
                                 IF Truthy(propertyName) THEN propertyName.s ELSE <<>>)

\* name.replace('?', ''): the first question mark only.
WithoutFirst(name, c) ==
    LET k == IndexOf(name, <<c>>)
    IN  IF k = -1 THEN name ELSE SubSeq(name, 1, k) \o Substr(name, k + 1)

\* _appendXmlAttribute(node, property, range, serialization)
_appendXmlAttribute(doc, node, property, range, serialization) ==
    LET name == IF Truthy(serialization.xmlName) THEN serialization.xmlName ELSE range.name
        ty == _readDataType(range)
    IN  IF ~Truthy(name) THEN doc
        ELSE setAttribute(doc, node, WithoutFirst(name.s, "?"),
                          IF Truthy(ty) THEN ty.s ELSE <<>>)

\* name.replace(/[^a-zA-Z0-9-]*/g, '') of _appendXmlElement.
ElementNameOf(name) == SelectSeq(name, LAMBDA c : c \in Alpha \cup {"-"} \/ IsDigit(c))

\* A faulty text of the element: nothing when the range has neither default
\* nor example (`nodeValue = ' '` forgotten).
ElementTextOf_noPlaceholder(range) ==
    LET fromExample == IF range.examples # <<>>
                       THEN _extractExampleRawValue(range.examples) ELSE Undef
    IN  IF Truthy(range.defaultValueStr) THEN range.defaultValueStr.s
        ELSE IF Truthy(fromExample) THEN fromExample.s
        ELSE <<>>

\* The text _appendXmlElement gives the element.
ElementTextOf(range) ==
    LET fromExample == IF range.examples # <<>>
                       THEN _extractExampleRawValue(range.examples) ELSE Undef
    IN  IF Truthy(range.defaultValueStr) THEN range.defaultValueStr.s
        ELSE IF Truthy(fromExample) THEN fromExample.s
        ELSE <<" ">>

\* _appendXmlElement(doc, node, range): the document as the call leaves it
\* and the element it returns (0: undefined), or Throw.
_appendXmlElement(doc, node, range) ==
    IF ~Truthy(range.name) THEN [doc |-> doc, element |-> 0]
    ELSE LET d1 == createElement(doc, ElementNameOf(range.name.s))
         IN  IF d1 = Throw THEN Throw
             ELSE LET element == Created(d1)
                      d2 == appendChild(createTextNode(d1, ElementTextOf(range)),
                                        element, element + 1)
                      d3 == appendChild(d2, node, element)
                  IN  IF d3 = Throw THEN Throw ELSE [doc |-> d3, element |-> element]

\* _xmlProcessUnionScalarProperty(doc, node, property, shape): the element
\* is created and filled, and appended to nothing.
_xmlProcessUnionScalarProperty(doc, node, property, shape) ==
    LET name == IF Truthy(property.name) THEN property.name.s
                ELSE <<"u","n","k","n","o","w","n">>
        ty == _readDataType(shape)
    IN  Then(createElement(doc, name),
             LAMBDA d1 : appendChild(createTextNode(d1, TextOf(ty)),
                                     Created(d1), Created(d1) + 1))

RECURSIVE _xmlProcessProperty(_, _, _)
RECURSIVE XmlPropertiesFrom(_, _, _, _)
RECURSIVE _appendXmlElements(_, _, _, _)
RECURSIVE _appendXmlArray(_, _, _, _, _)
RECURSIVE XmlItemsFrom(_, _, _, _, _)

\* for (i...) this._xmlProcessProperty(doc, node, properties[i]), from
\* property i on.
XmlPropertiesFrom(doc, node, properties, i) ==
    IF i > Len(properties) THEN doc
    ELSE Then(_xmlProcessProperty(doc, node, properties[i]),
              LAMBDA d : XmlPropertiesFrom(d, node, properties, i + 1))

\* _appendXmlElements(doc, node, property, range)
_appendXmlElements(doc, node, property, range) ==
    LET r == _appendXmlElement(doc, node, range)
    IN  IF r = Throw THEN Throw
        ELSE XmlPropertiesFrom(r.doc, r.element, range.property, 1)

\* The loop of _appendXmlArray from item i on: a wrapped item's element is
\* created under its declared name as it is, and becomes the node of the
\* items that follow.
XmlItemsFrom(doc, node, items, i, isWrapped) ==
    IF i > Len(items) THEN doc
    ELSE IF isWrapped /\ ~Truthy(items[i].name)
    THEN XmlItemsFrom(doc, node, items, i + 1, isWrapped)
    ELSE IF isWrapped
    THEN Then(createElement(doc, items[i].name.s),
              LAMBDA d1 :
                  Then(appendChild(d1, node, Created(d1)),
                       LAMBDA d2 :
                           Then(_xmlProcessProperty(d2, Created(d1), items[i]),
                                LAMBDA d3 : XmlItemsFrom(d3, Created(d1), items,
                                                         i + 1, isWrapped))))
    ELSE Then(_xmlProcessProperty(doc, node, items[i]),
              LAMBDA d : XmlItemsFrom(d, node, items, i + 1, isWrapped))

\* _appendXmlArray(doc, node, property, range, isWrapped)
_appendXmlArray(doc, node, property, range, isWrapped) ==
    IF isWrapped
    THEN LET r == _appendXmlElement(doc, node, range)
         IN  IF r = Throw THEN Throw
             ELSE Then(appendChild(r.doc, node, r.element),
                       LAMBDA d : XmlItemsFrom(d, r.element, range.items, 1, TRUE))
    ELSE XmlItemsFrom(doc, node, range.items, 1, FALSE)

\* _xmlProcessProperty(doc, node, property)
_xmlProcessProperty(doc, node, property) ==
    IF "NodeShape" \in TypesOf(property)
    THEN XmlPropertiesFrom(doc, node, property.property, 1)
    ELSE IF RangeOf(property) = <<>> THEN doc
    ELSE LET range == RangeOf(property)[1]
             serialization == IF range.xmlSerialization = <<>> THEN XmlSerialization
                              ELSE range.xmlSerialization[1]
             isWrapped == Truthy(serialization.xmlWrapped)
         IN  IF range.examples # <<>>
             THEN _xmlFromExamples(doc, node, range.examples[1],
                      IF Truthy(serialization.xmlName) THEN serialization.xmlName
                      ELSE range.name)
             ELSE IF _hasType(range, "UnionShape")
             THEN IF range.anyOf = <<>> THEN doc
                  ELSE IF _hasType(range.anyOf[1], "ScalarShape")
                  THEN _xmlProcessUnionScalarProperty(doc, node, property, range.anyOf[1])
                  ELSE _xmlProcessProperty(doc, node, range.anyOf[1])
             ELSE IF Truthy(serialization.xmlAttribute)
             THEN _appendXmlAttribute(doc, node, property, range, serialization)
             ELSE IF _hasType(range, "NodeShape")
             THEN _appendXmlElements(doc, node, property, range)
             ELSE IF _hasType(range, "ArrayShape")
             THEN _appendXmlArray(doc, node, property, range, isWrapped)
             ELSE LET r == _appendXmlElement(doc, node, range)
                  IN  IF r = Throw THEN Throw ELSE r.doc

\* The document _xmlExampleFromProperties(properties, typeName, parentType)
\* builds.
XmlDocumentFromProperties(properties, typeName, parentType) ==
    LET tn == _normalizeXmlTagName(typeName)
        pt == IF Truthy(parentType) THEN _normalizeXmlTagName(parentType.s) ELSE <<>>
    IN  Then(createDocument(IF pt # <<>> THEN pt ELSE tn),
             LAMBDA doc :
                 IF pt # <<>>
                 THEN Then(createElement(doc, tn),
                           LAMBDA d1 :
                               Then(appendChild(d1, d1.root, Created(d1)),
                                    LAMBDA d2 : XmlPropertiesFrom(d2, Created(d1),
                                                                  properties, 1)))
                 ELSE XmlPropertiesFrom(doc, doc.root, properties, 1))

\* _xmlExampleFromProperties(properties, typeName, parentType)
_xmlExampleFromProperties(properties, typeName, parentType) ==
    XmlText(XmlDocumentFromProperties(properties, typeName, parentType), FALSE)

\* _exampleFromProperties(properties, mime, typeName, parentType): a view
\* model, undefined, or Throw.
_exampleFromProperties(properties, m, typeName, parentType) ==
    Let(IF IndexOf(m.s, S_json) # -1
        THEN Str(JSONstringify(_jsonExampleFromProperties(properties)))
        ELSE IF IndexOf(m.s, S_xml) # -1
        THEN Let(_xmlExampleFromProperties(
                     properties,
                     IF Truthy(typeName) THEN typeName.s ELSE UNKNOWN_TYPE,
                     parentType),
                 LAMBDA xml :
                     IF xml = Throw \/ ~Truthy(xml) THEN xml
                     ELSE Str(formatXml(XmlDeclaration \o xml.s)))
        ELSE Undef,
        LAMBDA res :
            IF res = Throw THEN Throw
            ELSE IF Truthy(res)
            THEN [ViewModel EXCEPT !.hasRaw = Bool(FALSE), !.hasTitle = Bool(FALSE),
                                   !.hasUnion = Bool(FALSE), !.value = res]
            ELSE Undef)

(***************************************************************************)
(* Example Selector                                                        *)
(***************************************************************************)
S_amf == <<"a","m","f">>
S_amfId == <<"a","m","f",":","/","/","i","d">>
S_amf_inline_type == <<"a","m","f","_","i","n","l","i","n","e","_","t","y","p","e">>
S_example_ == <<"e","x","a","m","p","l","e","_">>
S_UnionNo == <<"U","n","i","o","n"," ","#">>

Contains(list, x) == \E k \in 1..Len(list) : list[k] = x

\* _processExamples(examples): the list of examples, or undefined.
_processExamples(examples) ==
    IF Len(examples) = 1 /\ _hasType(examples[1], "NamedExamples")
    THEN IF examples[1].examples = <<>> THEN Undef ELSE JsArray(examples[1].examples)
    ELSE JsArray(examples)

\* A faulty test of the loop of _listTypeExamples that looks for the type
\* identifier as given only (`ids.indexOf(typeId) !== -1` alone, the
\* "amf://id" form forgotten).
ListsExample_bareOnly(example, typeId) ==
    LET sm == example.sources
    IN  \/ ~sm.sm
        \/ ~sm.tracked
        \/ /\ Truthy(sm.value)
           /\ Contains(Split(sm.value.s, ","), typeId)

\* Whether the loop of _listTypeExamples keeps an example.
ListsExample(example, typeId) ==
    LET longId == IF IndexOf(typeId, S_amf) = -1 THEN S_amfId \o typeId ELSE typeId
        sm == example.sources
    IN  \/ ~sm.sm
        \/ ~sm.tracked
        \/ /\ Truthy(sm.value)
           /\ LET ids == Split(sm.value.s, ",")
              IN  Contains(ids, longId) \/ Contains(ids, typeId)

\* A faulty _listTypeExamples that returns the filtered list even when it is
\* empty (`return result` for `return result.length ? result : undefined`).
_listTypeExamples_emptyList(examples, typeId) ==
    IF ~Truthy(typeId) THEN examples
    ELSE IF IsUndef(examples) THEN Throw
    ELSE LET keep(example) == ListsExample(example, typeId.s)
         IN  JsArray(SelectSeq(examples.items, keep))

\* _listTypeExamples(examples, typeId): with a typeId, reading the length of
\* an absent list throws.
_listTypeExamples(examples, typeId) ==
    IF ~Truthy(typeId) THEN examples
    ELSE IF IsUndef(examples) THEN Throw
    ELSE LET keep(example) == ListsExample(example, typeId.s)
             res == SelectSeq(examples.items, keep)
         IN  IF res = <<>> THEN Undef ELSE JsArray(res)

\* _generateFromExample(example, mime, opts): a view model, undefined, or
\* Throw.
_generateFromExample(example, m, o) ==
    LET raw == example.raw
        title == IF Truthy(example.coreName) /\ IndexOf(example.coreName.s, S_example_) = 0
                 THEN Undef ELSE example.coreName
        hasRaw == Truthy(raw)
        r0 == [ViewModel EXCEPT !.hasTitle = Bool(Truthy(title)),
                                !.hasUnion = Bool(FALSE),
                                !.title = IF Truthy(title) THEN title ELSE Undef]
        literal == [r0 EXCEPT !.hasRaw = Bool(FALSE), !.value = raw,
                              !.isScalar = Bool(FALSE)]
    IN  IF o.rawOnly /\ ~hasRaw THEN Undef
        ELSE IF o.rawOnly THEN literal
        ELSE LET isJson == IndexOf(m.s, S_json) # -1
                 isXml == ~isJson /\ IndexOf(m.s, S_xml) # -1
                 r1 == IF hasRaw THEN [r0 EXCEPT !.hasRaw = Bool(TRUE), !.raw = raw]
                       ELSE r0
                 fallback == IF Truthy(r1.raw) THEN r1.raw ELSE Str(<<>>)
             IN  IF hasRaw /\ isJson
                    /\ JSONparseTypeof(raw.s) \notin {"error", "string", "number", "boolean"}
                 THEN literal
                 ELSE IF hasRaw /\ isXml /\ Trim(raw.s) # <<>> /\ Trim(raw.s)[1] = "<"
                 THEN literal
                 ELSE IF example.structuredValue = <<>>
                 THEN [r1 EXCEPT !.value = fallback, !.isScalar = Bool(FALSE)]
                 ELSE LET structure == example.structuredValue[1]
                      IN  IF _hasType(structure, "Scalar")
                          THEN [r1 EXCEPT !.value = _getTypedValue(structure),
                                          !.isScalar = Bool(TRUE)]
                          ELSE IF isJson
                          THEN LET data == _jsonFromStructure(structure)
                               IN  IF Truthy(data)
                                   THEN [r1 EXCEPT !.isScalar = Bool(FALSE),
                                                   !.value = Str(JSONstringify(data))]
                                   ELSE Undef
                          ELSE IF isXml
                          THEN Let(_xmlFromStructure(structure, o),
                                   LAMBDA data :
                                       IF data = Throw THEN Throw
                                       ELSE [r1 EXCEPT !.isScalar = Bool(FALSE),
                                                       !.value = data])
                          ELSE [r1 EXCEPT !.isScalar = Bool(FALSE), !.value = fallback]

RECURSIVE FromExamples(_, _, _, _, _)
\* The loop of _computeFromExamples from example i on.
FromExamples(examples, i, m, o, acc) ==
    IF i > Len(examples) THEN JsArray(acc)
    ELSE Let(_generateFromExample(examples[i], m, o),
             LAMBDA v : IF v = Throw THEN Throw
                        ELSE FromExamples(examples, i + 1, m, o,
                                          IF IsUndef(v) THEN acc ELSE Append(acc, v)))

\* A faulty _computeFromExamples that stops at the first example that
\* generates nothing (`break` for skipping it).
_computeFromExamples_stopAtGap(examples, m, o) ==
    LET listed == _listTypeExamples(_processExamples(examples), o.typeId)
        gen(k) == _generateFromExample(listed.items[k], m, o)
        upTo == {n \in 0..Len(listed.items) : \A k \in 1..n : ~IsUndef(gen(k))}
        last == CHOOSE n \in upTo : \A j \in upTo : j <= n
    IN  IF listed.t # "array" THEN listed ELSE JsArray([k \in 1..last |-> gen(k)])

\* _computeFromExamples(examples, mime, opts)
_computeFromExamples(examples, m, o) ==
    Let(_listTypeExamples(_processExamples(examples), o.typeId),
        LAMBDA listed :
            IF listed.t # "array" THEN listed
            ELSE FromExamples(listed.items, 1, m, o, <<>>))

\* A faulty _exampleFromJsonSchema that returns the example of the properties
\* as it is (`example.hasRaw = true; example.raw = jsonSchema` forgotten).
_exampleFromJsonSchema_noRaw(s, jsonSchema) ==
    LET typeName == IF Truthy(s.name) THEN s.name.s ELSE UNKNOWN_TYPE
    IN  Let(IF s.property # <<>>
            THEN _exampleFromProperties(s.property,
                     Str(<<"a","p","p","l","i","c","a","t","i","o","n","/">> \o S_json),
                     Str(typeName), Undef)
            ELSE Undef,
            LAMBDA example :
                JsArray(<<IF ~IsUndef(example) THEN example
                          ELSE [ViewModel EXCEPT !.hasRaw = Bool(FALSE),
                                                 !.hasTitle = Bool(FALSE),
                                                 !.hasUnion = Bool(FALSE),
                                                 !.value = jsonSchema]>>))

\* _exampleFromJsonSchema(schema, jsonSchema)
_exampleFromJsonSchema(s, jsonSchema) ==
    LET typeName == IF Truthy(s.name) THEN s.name.s ELSE UNKNOWN_TYPE
    IN  Let(IF s.property # <<>>
            THEN _exampleFromProperties(s.property,
                     Str(<<"a","p","p","l","i","c","a","t","i","o","n","/">> \o S_json),
                     Str(typeName), Undef)
            ELSE Undef,
            LAMBDA example :
                JsArray(<<IF ~IsUndef(example)
                          THEN [example EXCEPT !.hasRaw = Bool(TRUE), !.raw = jsonSchema]
                          ELSE [ViewModel EXCEPT !.hasRaw = Bool(FALSE),
                                                 !.hasTitle = Bool(FALSE),
                                                 !.hasUnion = Bool(FALSE),
                                                 !.value = jsonSchema]>>))

\* value[0] !== '[' for a value that is not undefined or null.
NoBracket(v) == ~(v.t = "string" /\ v.s # <<>> /\ v.s[1] = "[")

Bracketed(v) ==
    Str(<<"[">> \o (IF v = Str(<<>>) THEN <<"\"", "\"">> ELSE TextOf(v)) \o <<"]">>)

\* One step of the loop of _processJsonArrayExamples: the view model as the
\* step leaves it, or Throw when value[0] is read from null.
ProcessJsonArrayExample(item) ==
    IF item.values # <<>>
    THEN LET v == item.values[1].value
         IN  IF IsUndef(v) THEN item
             ELSE IF v.t = "null" THEN Throw
             ELSE IF NoBracket(v)
             THEN [item EXCEPT !.values[1].value = Bracketed(v)]
             ELSE item
    ELSE LET v == item.value
         IN  IF IsUndef(v) THEN item
             ELSE IF v.t = "null" THEN Throw
             ELSE IF NoBracket(v) THEN [item EXCEPT !.value = Bracketed(v)]
             ELSE item

\* _processJsonArrayExamples(examples): the list as the call leaves it.
_processJsonArrayExamples(examples) ==
    LET done == [k \in 1..Len(examples.items) |-> ProcessJsonArrayExample(examples.items[k])]
    IN  IF \E k \in 1..Len(done) : done[k] = Throw THEN Throw ELSE JsArray(done)

\* What a call gives back: the value it returns (Throw when it throws) and
\* the options object as it leaves it.
Ret(r, o) == [ret |-> r, opts |-> o]

RECURSIVE computeExamples(_, _, _)
RECURSIVE _computeExampleArraySchape(_, _, _)
RECURSIVE ArrayItemsFrom(_, _, _, _)
RECURSIVE _computeUnionExamples(_, _, _)
RECURSIVE UnionFrom(_, _, _, _, _)
RECURSIVE AfterArrays(_, _, _)

\* The loop of _computeExampleArraySchape from item i on.
ArrayItemsFrom(items, i, m, o) ==
    IF i > Len(items) THEN Ret(Undef, o)
    ELSE Let(computeExamples(<<items[i]>>, m, o),
             LAMBDA r :
                 IF r.ret = Throw THEN r
                 ELSE IF r.ret.t = "array"
                 THEN IF IndexOf(m.s, S_json) # -1
                      THEN Ret(_processJsonArrayExamples(r.ret), r.opts)
                      ELSE r
                 ELSE ArrayItemsFrom(items, i + 1, m, r.opts))

\* A faulty _computeExampleArraySchape that leaves typeName in the options
\* (`delete opts.typeName` forgotten).
_computeExampleArraySchape_keepTypeName(s, m, o) ==
    IF s.items = <<>> THEN Ret(Undef, o)
    ELSE ArrayItemsFrom(s.items, 1, m, [o EXCEPT !.parentName = o.typeName])

\* _computeExampleArraySchape(schema, mime, opts)
_computeExampleArraySchape(s, m, o) ==
    IF s.items = <<>> THEN Ret(Undef, o)
    ELSE ArrayItemsFrom(s.items, 1, m,
                        [o EXCEPT !.parentName = o.typeName, !.typeName = Undef])

\* The loop of _computeUnionExamples from alternative i on; `acc` is
\* result.values.  data[0] of an empty list is undefined, and setting
\* hasTitle on it throws.
UnionFrom(anyOf, i, m, o, acc) ==
    IF i > Len(anyOf)
    THEN Ret(IF acc = <<>> THEN Undef
             ELSE JsArray(<<[ViewModel EXCEPT !.hasTitle = Bool(FALSE),
                                              !.hasRaw = Bool(FALSE),
                                              !.hasUnion = Bool(TRUE),
                                              !.values = acc]>>), o)
    ELSE LET unionSchape == anyOf[i]
             name == IF Truthy(unionSchape.name) THEN unionSchape.name
                     ELSE Str(S_UnionNo \o NumberToText(i))
         IN  Let(computeExamples(<<unionSchape>>, m, o),
                 LAMBDA r :
                     IF r.ret = Throw THEN r
                     ELSE IF r.ret.t # "array" THEN UnionFrom(anyOf, i + 1, m, r.opts, acc)
                     ELSE IF r.ret.items = <<>> THEN Ret(Throw, r.opts)
                     ELSE UnionFrom(anyOf, i + 1, m, r.opts,
                              Append(acc, [r.ret.items[1] EXCEPT
                                              !.hasTitle = Bool(TRUE), !.title = name])))

_computeUnionExamples(s, m, o) ==
    IF s.anyOf = <<>> THEN Ret(Undef, o) ELSE UnionFrom(s.anyOf, 1, m, o, <<>>)

\* computeExamples from the Example test on (lines 203-236); `o2` is the
\* options object as array handling has left it.
AfterArrays(s, m, o2) ==
    Let(IF _hasType(s, "Example") THEN _generateFromExample(s, m, o2) ELSE Undef,
        LAMBDA e :
            IF e = Throw THEN Ret(Throw, o2)
            ELSE IF ~IsUndef(e) THEN Ret(JsArray(<<e>>), o2)
            ELSE IF _hasType(s, "UnionShape") THEN _computeUnionExamples(s, m, o2)
            ELSE IF o2.noAuto THEN Ret(Undef, o2)
            ELSE IF _hasType(s, "ScalarShape")
            THEN Ret(JsArray(<<[ViewModel EXCEPT !.hasRaw = Bool(FALSE),
                                                 !.hasTitle = Bool(FALSE),
                                                 !.hasUnion = Bool(FALSE),
                                                 !.value = _computeJsonScalarValue(s),
                                                 !.isScalar = Bool(TRUE)]>>), o2)
            ELSE Let(IF s.property # <<>>
                     THEN _exampleFromProperties(s.property, m, o2.typeName, o2.parentName)
                     ELSE Undef,
                     LAMBDA v : Ret(IF v = Throw THEN Throw
                                    ELSE IF ~IsUndef(v) THEN JsArray(<<v>>)
                                    ELSE Undef, o2)))

\* computeExamples(schema, mime, opts); `sch` is the schema argument, empty
\* when the caller passes none.
computeExamples(sch, m, o) ==
    IF sch = <<>> \/ (~Truthy(m) /\ ~o.rawOnly) THEN Ret(Undef, o)
    ELSE LET s == sch[1]
             o1 == IF ~Truthy(o.typeName) /\ Truthy(s.name)
                      /\ IndexOf(s.name.s, S_amf_inline_type) # 0
                   THEN [o EXCEPT !.typeName = s.name] ELSE o
         IN  IF s.examples # <<>> THEN Ret(_computeFromExamples(s.examples, m, o1), o1)
             ELSE IF Truthy(s.jsonSchema)
             THEN Ret(_exampleFromJsonSchema(s, s.jsonSchema), o1)
             ELSE IF o1.rawOnly THEN Ret(Undef, o1)
             ELSE Let(IF _hasType(s, "ArrayShape")
                      THEN _computeExampleArraySchape(s, m, o1)
                      ELSE Ret(Undef, o1),
                      LAMBDA a : IF a.ret = Throw \/ Truthy(a.ret) THEN a
                                 ELSE AfterArrays(s, m, a.opts))

(***************************************************************************)
(* Payload Entry                                                           *)
(***************************************************************************)
\* A payload node carries `id` (@id), `mediaType` (core:mediaType) and
\* `schema` (the shapes:schema edge).
PayloadNode ==
    [t |-> "node", types |-> {"Payload"}, id |-> Undef, mediaType |-> Undef,
     schema |-> <<>>]

\* The options object {}.
NoOptions ==
    [rawOnly |-> FALSE, noAuto |-> FALSE, typeId |-> Undef, typeName |-> Undef,
     parentName |-> Undef]

\* listMedia(payloads)
listMedia(ps) ==
    IF IsUndef(ps) THEN Undef
    ELSE IF ps.t # "array"
    THEN IF ~_hasType(ps, "Payload") THEN Undef ELSE JsArray(<<ps.mediaType>>)
    ELSE JsArray([i \in 1..Len(ps.items) |-> ps.items[i].mediaType])

\* A faulty generatePayloadExamples that leaves the options as they are
\* (`opts.typeId = payload['@id']` forgotten).
generatePayloadExamples_keepTypeId(payload, m, o) ==
    IF payload.t # "node" \/ ~_hasType(payload, "Payload") THEN Ret(Undef, o)
    ELSE IF payload.schema = <<>> THEN Ret(Undef, o)
    ELSE IF o = Undef THEN Ret(Throw, o)
    ELSE computeExamples(<<payload.schema[1]>>, m, o)

\* generatePayloadExamples(payload, mime, opts); `o` is Undef when the caller
\* passes no options, and writing typeId to it throws.
generatePayloadExamples(payload, m, o) ==
    IF payload.t # "node" \/ ~_hasType(payload, "Payload") THEN Ret(Undef, o)
    ELSE IF payload.schema = <<>> THEN Ret(Undef, o)
    ELSE IF o = Undef THEN Ret(Throw, o)
    ELSE computeExamples(<<payload.schema[1]>>, m, [o EXCEPT !.typeId = payload.id])

\* A faulty loop of generatePayloadsExamples that takes the first payload
\* whatever its media type (the test of mediaType forgotten).
PayloadsFrom_anyMedia(list, i, media, o) ==
    IF i > Len(list) THEN Ret(Undef, o)
    ELSE generatePayloadExamples(list[i], media, o)

RECURSIVE PayloadsFrom(_, _, _, _)
\* The loop of generatePayloadsExamples from payload i on.
PayloadsFrom(list, i, media, o) ==
    IF i > Len(list) THEN Ret(Undef, o)
    ELSE IF Truthy(media) /\ list[i].mediaType # media
    THEN PayloadsFrom(list, i + 1, media, o)
    ELSE generatePayloadExamples(list[i], media, o)

\* generatePayloadsExamples(payloads, media, opts): without options from the
\* caller the call works on an object of its own.
generatePayloadsExamples(ps, media, o) ==
    LET own == IF o = Undef THEN NoOptions ELSE o
    IN  IF IsUndef(ps) \/ (~Truthy(media) /\ ~own.rawOnly) THEN Ret(Undef, o)
        ELSE Let(PayloadsFrom(IF ps.t = "array" THEN ps.items ELSE <<ps>>, 1, media, own),
                 LAMBDA r : Ret(r.ret, IF o = Undef THEN o ELSE r.opts))

(***************************************************************************)
(* The inputs of the model                                                 *)
(***************************************************************************)
MaxExamples == 2       \* example nodes of a shape
MaxAlternatives == 2   \* alternatives of a union
MaxProperties == 2     \* declared properties of an object
MaxItems == 2          \* item types of an array

SeqsUpTo(S, n) == UNION {[1..k -> S] : k \in 1..n}

T_json == Str(<<"a","p","p","l","i","c","a","t","i","o","n","/","j","s","o","n">>)
T_xml == Str(<<"a","p","p","l","i","c","a","t","i","o","n","/","x","m","l">>)
T_plain == Str(<<"t","e","x","t","/","p","l","a","i","n">>)
Mimes == {Undef, T_json, T_xml, T_plain}

T_Pet == Str(<<"P","e","t">>)
T_inline == Str(<<"a","m","f","_","i","n","l","i","n","e","_","t","y","p","e","_","1">>)
T_p1 == Str(<<"p","1">>)
T_amfp1 == Str(<<"a","m","f",":","/","/","i","d","p","1">>)
T_schema == Str(<<"{","\"","t","y","p","e","\"",":","\"","o","b","j","e","c","t","\"","}">>)

Options ==
    [rawOnly : BOOLEAN, noAuto : BOOLEAN, typeId : {Undef, T_p1, T_amfp1},
     typeName : {Undef, Str(<<"T">>)}, parentName : {Undef}]

\* A datatype identifier as the model in use writes it: in full, or with a
\* compact model also as prefix:name.
DatatypeIds(names) ==
    {XmlSchema(n) : n \in names} \cup {Shapes(n) : n \in names}
        \cup (IF amf THEN {_getAmfKey(XmlSchema(n)) : n \in names}
                            \cup {_getAmfKey(Shapes(n)) : n \in names}
              ELSE {})

\* The data key of a member of a structured object.
DataKey(name) == IF amf THEN <<"d","a","t","a",":">> \o name ELSE DataNs \o name

\* Structured values of author examples.
ScalarData(text, dt) ==
    [DataNode EXCEPT !.types = {"Scalar"},
                     !.value = <<[value |-> Str(text), type |-> Undef]>>,
                     !.datatype = <<dt>>]
D_five == ScalarData(<<"5">>, XmlSchema(N_integer))
D_text == ScalarData(<<"x">>, XmlSchema(N_string))
D_noValue == [DataNode EXCEPT !.types = {"Scalar"}]
D_object ==
    [DataNode EXCEPT !.types = {"Object"},
                     !.props = <<[key |-> DataKey(<<"a">>), node |-> D_five]>>]
D_array == [DataNode EXCEPT !.types = {"Array"}, !.member = <<D_five, D_text>>]
D_unknown == [DataNode EXCEPT !.types = {}]
StructuredValues == {<<>>, <<D_five>>, <<D_noValue>>, <<D_object>>, <<D_array>>, <<D_unknown>>}

RawTexts ==
    {Undef, Str(<<"{","\"","a","\"",":","1","}">>), Str(<<"4","2">>), Str(<<"a","b","c">>),
     Str(<<"n","u","l","l">>), Str(<<" ","<","a","/",">">>)}

Tracked(ids) == [sm |-> TRUE, tracked |-> TRUE, value |-> ids]
SourceMaps ==
    {NoSources, [sm |-> TRUE, tracked |-> FALSE, value |-> Undef],
     Tracked(Str(<<"a","m","f",":","/","/","i","d","p","1",",","z","z">>)),
     Tracked(Str(<<"z","z">>)), Tracked(Str(<<"z","z",",","p","1">>)), Tracked(Undef)}

ExampleNode(raw, title, structure, sources) ==
    [Node EXCEPT !.types = {"Example"}, !.raw = raw, !.coreName = title,
                 !.structuredValue = structure, !.sources = sources]

\* Every example node of the model, and the few that lists of several draw on.
Examples ==
    {ExampleNode(r, Undef, sv, sm) : r \in RawTexts, sv \in StructuredValues, sm \in SourceMaps}
      \cup {ExampleNode(Str(<<"4","2">>), t, <<>>, NoSources) :
               t \in {Str(<<"E","1">>), Str(<<"e","x","a","m","p","l","e","_","0">>)}}
ListedExamples ==
    {ExampleNode(r, Undef, sv, NoSources) :
        r \in {Undef, Str(<<"4","2">>)}, sv \in {<<>>, <<D_object>>}}
      \cup {ExampleNode(r, Undef, <<>>, Tracked(Str(<<"z","z">>))) :
               r \in {Undef, Str(<<"4","2">>)}}
ExampleLists ==
    {<<e>> : e \in Examples} \cup SeqsUpTo(ListedExamples, MaxExamples)
NamedExamples ==
    {<<[Node EXCEPT !.types = {"NamedExamples"}, !.examples = l]>> :
        l \in {<<>>} \cup SeqsUpTo(ListedExamples, MaxExamples)}

\* Shapes.
Scalar(dt, dv) ==
    [Node EXCEPT !.types = {"ScalarShape"}, !.datatype = dt, !.defaultValue = dv]
Object(properties) == [Node EXCEPT !.types = {"NodeShape"}, !.property = properties]
Array(items) == [Node EXCEPT !.types = {"ArrayShape"}, !.items = items]
Union(anyOf) == [Node EXCEPT !.types = {"UnionShape"}, !.anyOf = anyOf]
Nil == [Node EXCEPT !.types = {"NilShape"}]

DatatypeNames ==
    {N_boolean, N_nil, N_integer, N_number, N_long, N_double, N_float, N_string}
ScalarTypes == {<<>>} \cup {<<id>> : id \in DatatypeIds(DatatypeNames)}
Scalars == {Scalar(dt, <<>>) : dt \in ScalarTypes}
Defaulted ==
    {Scalar(dt, <<Str(<<"7">>)>>) :
        dt \in {<<>>, <<XmlSchema(N_integer)>>, <<XmlSchema(N_boolean)>>} }
\* The shapes that composite shapes of several parts are built from.
Parts ==
    {Scalar(<<id>>, <<>>) : id \in {XmlSchema(N_integer), _getAmfKey(XmlSchema(N_integer)),
                                    XmlSchema(N_string), XmlSchema(N_nil)}}
      \cup {Nil, Object(<<>>), Scalar(<<XmlSchema(N_integer)>>, <<Str(<<"7">>)>>),
            [Scalar(<<XmlSchema(N_string)>>, <<>>) EXCEPT !.name = T_Pet]}
Leaves ==
    Scalars \cup Parts \cup Defaulted
          \cup {[Scalar(<<XmlSchema(N_integer)>>, <<>>) EXCEPT
                    !.examples = <<ExampleNode(Str(<<"5">>), Undef, <<D_five>>, NoSources)>>]}

PropertyNames == <<<<"n","a","m","e">>, <<"a","g","e">>, <<"i","d">>>>
\* The k-th declared property: its name is its own, or missing.
PropertiesAt(k) ==
    {[name |-> Str(PropertyNames[k]), range |-> <<r>>] : r \in Parts}
      \cup {[name |-> Undef, range |-> <<Scalar(<<>>, <<>>)>>],
            [name |-> Str(PropertyNames[k]), range |-> <<>>]}
PropertyLists ==
    UNION {{l \in [1..n -> UNION {PropertiesAt(k) : k \in 1..n}] :
               \A k \in 1..n : l[k] \in PropertiesAt(k)} : n \in 1..MaxProperties}

Objects == {Object(l) : l \in PropertyLists}
Unions == {Union(l) : l \in SeqsUpTo(Parts, MaxAlternatives)}
Arrays == {Array(l) : l \in SeqsUpTo(Parts, MaxItems)} \cup {Array(<<x>>) : x \in Leaves}
Records == {Object(<<[name |-> Str(PropertyNames[1]), range |-> <<x>>]>>) : x \in Leaves}
\* Shapes nested one level deeper.
Nested ==
    {Array(<<x>>) : x \in Parts} \cup {Union(<<x>>) : x \in Parts}
      \cup {Object(<<p>>) : p \in PropertiesAt(1)}
Deep ==
    {Array(<<x>>) : x \in Unions \cup Nested}
      \cup {Union(l) : l \in SeqsUpTo(Nested \ {Nil}, 1)}
      \cup {Object(<<[name |-> Str(PropertyNames[1]), range |-> <<x>>]>>) : x \in Nested}
\* Shapes that carry a source-mapped JSON schema, author examples or a name.
WithJsonSchema ==
    {[x EXCEPT !.jsonSchema = T_schema] :
        x \in {Object(<<>>)} \cup {Object(<<p>>) : p \in PropertiesAt(1)}}
WithExamples ==
    {[x EXCEPT !.examples = l] :
        x \in {Array(<<Scalar(<<XmlSchema(N_integer)>>, <<>>)>>),
               [Object(<<>>) EXCEPT !.jsonSchema = T_schema]},
        l \in ExampleLists \cup NamedExamples}
WithName ==
    {[x EXCEPT !.name = n] :
        x \in {Object(<<[name |-> Str(PropertyNames[1]), range |-> <<Nil>>]>>),
               Array(<<Object(<<[name |-> Str(PropertyNames[1]), range |-> <<Nil>>]>>)>>)},
        n \in {T_Pet, T_inline}}
AsExample == {ExampleNode(r, Undef, sv, NoSources) : r \in RawTexts, sv \in {<<>>, <<D_object>>}}
\* Alternatives that carry an author example, and the unions of them: the
\* example of the first generates a value, that of the second generates
\* nothing for a JSON target.
Exemplified ==
    {[Scalar(<<XmlSchema(N_string)>>, <<>>) EXCEPT
         !.examples = <<ExampleNode(Undef, Undef, sv, NoSources)>>] :
        sv \in {<<D_five>>, <<D_unknown>>}}
UnionsOfExamples == {Union(l) : l \in SeqsUpTo(Exemplified, MaxAlternatives)}
\* Alternatives that are objects with a declared property, under a name of
\* their own or without one, an array of such an object, and the unions of
\* them.
T_Cat == Str(<<"C","a","t">>)
Structured ==
    LET object == Object(<<[name |-> Str(PropertyNames[1]),
                            range |-> <<[Scalar(<<XmlSchema(N_string)>>, <<>>) EXCEPT
                                            !.name = Str(PropertyNames[1])]>>]>>)
    IN  {object, [object EXCEPT !.name = T_Pet], [object EXCEPT !.name = T_Cat],
         [Array(<<object>>) EXCEPT !.name = T_Pet]}
UnionsOfObjects == {Union(l) : l \in SeqsUpTo(Structured, MaxAlternatives)}
\* Objects whose property has a range that carries author examples with
\* structured values.
RangeExamples ==
    {ExampleNode(Undef, Undef, <<sv>>, NoSources) : sv \in {D_five, D_text}}
WithRangeExamples ==
    {Object(<<[name |-> Str(PropertyNames[1]),
               range |-> <<[Scalar(<<XmlSchema(N_string)>>, <<>>) EXCEPT
                               !.name = Str(PropertyNames[1]), !.examples = l]>>]>>) :
        l \in SeqsUpTo(RangeExamples, MaxExamples)}

Schemas ==
    {<<>>} \cup {<<x>> : x \in Leaves \cup Objects \cup Records \cup Unions \cup Arrays \cup Deep
                               \cup WithJsonSchema \cup WithExamples \cup WithName
                               \cup AsExample \cup UnionsOfExamples
                               \cup UnionsOfObjects \cup WithRangeExamples}

(***************************************************************************)
(* The calls                                                               *)
(***************************************************************************)
Init ==
    /\ amf \in BOOLEAN
    /\ schema \in Schemas
    /\ mime \in Mimes
    /\ opts0 \in Options
    /\ opts = opts0
    /\ value = Undef
    /\ type = Undef
    /\ pc = "ready"
    /\ result = Undef
    /\ payloads = Undef
    /\ xmlDoc = Undef
    /\ log = <<>>
    /\ fmt = Undef
    /\ stack = <<>>

\* examples = generator.computeExamples(schema, mime, opts)
ComputeExamples ==
    /\ pc = "ready"
    /\ Let(computeExamples(schema, mime, opts),
           LAMBDA r : result' = r.ret /\ opts' = r.opts)
    /\ pc' = "done"
    /\ UNCHANGED <<amf, schema, mime, opts0, value, type, payloads, xmlDoc, log, fmt, stack>>

Next == ComputeExamples

Spec == Init /\ [][Next]_vars

(***************************************************************************)
(* The calls of _typeToValue                                               *)
(***************************************************************************)
\* The literal texts: absent, empty, the booleans, numbers and a word.
Texts ==
    {Undef, Str(<<>>), Str(<<"t","r","u","e">>), Str(<<"f","a","l","s","e">>),
     Str(<<"1","2">>), Str(<<"0">>), Str(<<"a","b","c">>)}

InitCoerce ==
    /\ amf \in BOOLEAN
    /\ schema = <<>>
    /\ mime = Undef
    /\ opts0 = [rawOnly |-> FALSE, noAuto |-> FALSE, typeId |-> Undef,
                typeName |-> Undef, parentName |-> Undef]
    /\ opts = opts0
    /\ value \in Texts
    /\ type \in {Str(id) : id \in DatatypeIds(DatatypeNames)}
    /\ pc = "ready"
    /\ result = Undef
    /\ payloads = Undef
    /\ xmlDoc = Undef
    /\ log = <<>>
    /\ fmt = Undef
    /\ stack = <<>>

\* result = generator._typeToValue(value, type)
TypeToValue ==
    /\ pc = "ready"
    /\ result' = _typeToValue(value, type)
    /\ pc' = "done"
    /\ UNCHANGED <<amf, schema, mime, opts0, opts, value, type, payloads, xmlDoc, log, fmt, stack>>

NextCoerce == TypeToValue

SpecCoerce == InitCoerce /\ [][NextCoerce]_vars

(***************************************************************************)
(* The calls on payloads                                                   *)
(***************************************************************************)
MaxPayloads == 2       \* payloads of a list

T_zz == Str(<<"z","z">>)
\* The schema edge of a payload: none, or a shape; the examples of the last
\* two are linked to the payload p1 and to another element.
PayloadSchemas ==
    {<<>>, <<Scalar(<<XmlSchema(N_integer)>>, <<>>)>>,
     <<Object(<<[name |-> Str(PropertyNames[1]),
                 range |-> <<Scalar(<<XmlSchema(N_string)>>, <<>>)>>]>>)>>}
      \cup {<<[Object(<<>>) EXCEPT
                 !.examples = <<ExampleNode(Str(<<"4","2">>), Undef, <<>>, Tracked(ids))>>]>> :
               ids \in {Str(<<"a","m","f",":","/","/","i","d","p","1",",","z","z">>), T_zz}}
Payloads ==
    {[PayloadNode EXCEPT !.id = T_p1, !.mediaType = mt, !.schema = sch] :
        mt \in {Undef, T_json, T_xml}, sch \in PayloadSchemas}
\* A node that is not a payload.
NotPayload ==
    [PayloadNode EXCEPT !.types = {"NodeShape"}, !.id = T_zz, !.mediaType = T_json,
                        !.schema = <<Nil>>]
PayloadInputs ==
    {Undef, JsArray(<<>>), NotPayload} \cup Payloads
      \cup {JsArray(l) : l \in SeqsUpTo(Payloads \cup {NotPayload}, MaxPayloads)}

\* The options argument: omitted, or an object.
PayloadOptions == {Undef, NoOptions, [NoOptions EXCEPT !.rawOnly = TRUE]}

InitPayload ==
    /\ amf \in BOOLEAN
    /\ schema = <<>>
    /\ mime \in {Undef, T_json, T_xml}
    /\ opts0 \in PayloadOptions
    /\ opts = opts0
    /\ value = Undef
    /\ type = Undef
    /\ pc = "ready"
    /\ result = Undef
    /\ payloads \in PayloadInputs
    /\ xmlDoc = Undef
    /\ log = <<>>
    /\ fmt = Undef
    /\ stack = <<>>

\* result = generator.listMedia(payloads)
ListMedia ==
    /\ pc = "ready"
    /\ result' = listMedia(payloads)
    /\ pc' = "listMedia"
    /\ UNCHANGED <<amf, schema, mime, opts0, opts, value, type, payloads, xmlDoc, log, fmt, stack>>

\* result = generator.generatePayloadsExamples(payloads, mime, opts)
GeneratePayloadsExamples ==
    /\ pc = "ready"
    /\ Let(generatePayloadsExamples(payloads, mime, opts),
           LAMBDA r : result' = r.ret /\ opts' = r.opts)
    /\ pc' = "generatePayloadsExamples"
    /\ UNCHANGED <<amf, schema, mime, opts0, value, type, payloads, xmlDoc, log, fmt, stack>>

\* result = generator.generatePayloadExamples(payloads, mime, opts)
GeneratePayloadExamples ==
    /\ pc = "ready"
    /\ Let(generatePayloadExamples(payloads, mime, opts),
           LAMBDA r : result' = r.ret /\ opts' = r.opts)
    /\ pc' = "generatePayloadExamples"
    /\ UNCHANGED <<amf, schema, mime, opts0, value, type, payloads, xmlDoc, log, fmt, stack>>

NextPayload ==
    \/ ListMedia
    \/ GeneratePayloadsExamples
    \/ GeneratePayloadExamples

SpecPayload == InitPayload /\ [][NextPayload]_vars

(***************************************************************************)
(* The calls of the XML builder                                            *)
(***************************************************************************)
MaxXmlProperties == 2  \* declared properties of a shape rendered as XML

N_name == <<"n","a","m","e">>
N_first_name == <<"f","i","r","s","t","_","n","a","m","e">>
N_zip == <<"z","i","p","?">>
N_tags == <<"t","a","g","s">>
N_tag == <<"t","a","g">>
\* A range under its name.
Named(range, name) == [range EXCEPT !.name = Str(name)]
AsAttribute(range, xmlName) ==
    [range EXCEPT !.xmlSerialization =
        <<[XmlSerialization EXCEPT !.xmlAttribute = Bool(TRUE), !.xmlName = xmlName]>>]
Wrapped(range) ==
    [range EXCEPT !.xmlSerialization =
        <<[XmlSerialization EXCEPT !.xmlAttribute = Bool(FALSE),
                                   !.xmlWrapped = Bool(TRUE)]>>]
StringRange == Scalar(<<XmlSchema(N_string)>>, <<>>)
IntegerRange == Scalar(<<XmlSchema(N_integer)>>, <<>>)
\* The ranges of the properties: scalar elements, attributes, arrays (wrapped
\* or not), a nested object, a union, and a range with an author example.
XmlRanges ==
    {Named(StringRange, N_name), Named(StringRange, N_first_name),
     Named(IntegerRange, N_zip),
     [Named(StringRange, N_name) EXCEPT !.defaultValueStr = Str(<<"J","o","e">>)],
     AsAttribute(Named(IntegerRange, <<"i","d">>), Undef),
     AsAttribute(Named(IntegerRange, N_zip), Undef),
     AsAttribute(Named(StringRange, N_name), Str(<<"a",".","b">>)),
     AsAttribute(Named(StringRange, N_name), Str(<<"a","?","?">>)),
     Named(Array(<<Named(StringRange, N_tag)>>), N_tags),
     Wrapped(Named(Array(<<Named(StringRange, N_tag)>>), N_tags)),
     Wrapped(Named(Array(<<Named(StringRange, N_zip)>>), N_tags)),
     Wrapped(Named(Array(<<Named(Object(<<[name |-> Str(N_name),
                                           range |-> <<Named(StringRange, N_name)>>]>>),
                                 N_tag)>>), N_tags)),
     Named(Object(<<[name |-> Str(N_name),
                     range |-> <<Named(StringRange, N_first_name)>>]>>),
           <<"o","w","n","e","r">>),
     Named(Union(<<StringRange, IntegerRange>>), <<"u">>),
     Named(Union(<<Object(<<[name |-> Str(N_name),
                             range |-> <<Named(StringRange, N_name)>>]>>)>>), <<"u">>),
     [Named(StringRange, N_first_name) EXCEPT
         !.examples = <<ExampleNode(Undef, Undef, <<D_five>>, NoSources)>>],
     [Named(Array(<<StringRange>>), <<"b","o","x","e","s">>) EXCEPT
         !.examples = <<ExampleNode(Undef, Undef, <<D_array>>, NoSources)>>],
     AsAttribute([Named(StringRange, N_name) EXCEPT
                     !.examples = <<ExampleNode(Undef, Undef, <<D_five>>, NoSources)>>],
                 Undef),
     AsAttribute(Named(Union(<<StringRange, IntegerRange>>), <<"u">>), Undef),
     [Named(Union(<<StringRange>>), <<"u">>) EXCEPT
         !.examples = <<ExampleNode(Undef, Undef, <<D_text>>, NoSources)>>],
     Wrapped(Named(Array(<<Named(StringRange, N_tag),
                           Named(IntegerRange, <<"i","d">>)>>), N_tags)),
     Named(Array(<<Named(Object(<<[name |-> Str(N_name),
                                   range |-> <<Named(StringRange, N_name)>>]>>),
                         N_tag)>>), N_tags),
     [Named(StringRange, N_name) EXCEPT
         !.examples = <<ExampleNode(Str(<<"4","2">>), Undef, <<>>, NoSources)>>]}
XmlProperties == {[name |-> r.name, range |-> <<r>>] : r \in XmlRanges}
XmlShapes == {Object(l) : l \in SeqsUpTo(XmlProperties, MaxXmlProperties)}

\* Structured values of author examples rendered as XML.
XmlStructures ==
    {D_object, D_array, D_unknown,
     [D_object EXCEPT !.props = <<[key |-> DataKey(N_first_name), node |-> D_text],
                                  [key |-> DataKey(N_tags), node |-> D_array]>>],
     [D_object EXCEPT !.props = <<[key |-> DataKey(N_zip), node |-> D_five],
                                  [key |-> DataKey(<<"o">>), node |-> D_object]>>],
     [D_object EXCEPT !.props = <<[key |-> DataKey(<<"a">>), node |-> D_noValue]>>],
     [D_object EXCEPT !.props = <<[key |-> DataKey(<<"?">>), node |-> D_text]>>]}
XmlExamples == {ExampleNode(Undef, Undef, <<sv>>, NoSources) : sv \in XmlStructures}

\* Scalar ranges as _appendXmlElement is given them: with and without a
\* name, a default and an author example (on its own or in a named-examples
\* wrapper).
XmlScalars ==
    LET example == ExampleNode(Str(<<"4","2">>), Undef, <<>>, NoSources)
        named == <<[Node EXCEPT !.types = {"NamedExamples"}, !.examples = <<example>>]>>
    IN  {[r EXCEPT !.defaultValueStr = dv, !.examples = ex] :
            r \in {StringRange, Named(StringRange, N_name), Named(IntegerRange, N_zip)},
            dv \in {Undef, Str(<<"J","o","e">>)},
            ex \in {<<>>, <<example>>, named,
                    <<ExampleNode(Undef, Undef, <<D_five>>, NoSources)>>}}

XmlOptions ==
    [rawOnly : {FALSE}, noAuto : {FALSE}, typeId : {Undef},
     typeName : {Undef, T_Pet, Str(<<"m","y","_","t","y","p","e","?">>)},
     parentName : {Undef, Str(<<"P","a","r",".","e","n","t">>)}]

InitXml ==
    /\ amf \in BOOLEAN
    /\ schema \in {<<x>> : x \in XmlShapes \cup XmlExamples \cup XmlScalars}
    /\ mime = T_xml
    /\ opts0 \in XmlOptions
    /\ opts = opts0
    /\ value = Undef
    /\ type = Undef
    /\ pc = "ready"
    /\ result = Undef
    /\ payloads = Undef
    /\ xmlDoc = Undef
    /\ log = <<>>
    /\ fmt = Undef
    /\ stack = <<>>

\* result = generator._xmlExampleFromProperties(properties, typeName, parentType),
\* as _exampleFromProperties calls it
XmlExampleFromProperties ==
    /\ pc = "ready"
    /\ _hasType(schema[1], "NodeShape")
    /\ LET typeName == IF Truthy(opts.typeName) THEN opts.typeName.s ELSE UNKNOWN_TYPE
       IN  /\ xmlDoc' = XmlDocumentFromProperties(schema[1].property, typeName,
                                                  opts.parentName)
           /\ result' = _xmlExampleFromProperties(schema[1].property, typeName,
                                                  opts.parentName)
    /\ pc' = "properties"
    /\ UNCHANGED <<amf, schema, mime, opts0, opts, value, type, payloads, log, fmt, stack>>

\* result = generator._xmlFromStructure(structure, opts)
XmlFromStructure ==
    /\ pc = "ready"
    /\ _hasType(schema[1], "Example")
    /\ xmlDoc' = XmlDocumentFromStructure(schema[1].structuredValue[1], opts)
    /\ result' = _xmlFromStructure(schema[1].structuredValue[1], opts)
    /\ pc' = "structure"
    /\ UNCHANGED <<amf, schema, mime, opts0, opts, value, type, payloads, log, fmt, stack>>

\* generator._appendXmlElement(doc, main, range) on a document that holds
\* the element `main` only; `result` is the document after the call, as
\* XMLSerializer writes it.
AppendXmlElement ==
    /\ pc = "ready"
    /\ _hasType(schema[1], "ScalarShape")
    /\ LET doc == XmlDocumentFromProperties(<<>>, UNKNOWN_TYPE, opts.parentName)
           r == IF doc = Throw THEN Throw ELSE _appendXmlElement(doc, Created(doc), schema[1])
       IN  /\ xmlDoc' = IF r = Throw THEN Throw ELSE r.doc
           /\ result' = IF r = Throw THEN Throw ELSE XmlText(r.doc, FALSE)
    /\ pc' = "element"
    /\ UNCHANGED <<amf, schema, mime, opts0, opts, value, type, payloads, log, fmt, stack>>

NextXml ==
    \/ XmlExampleFromProperties
    \/ XmlFromStructure
    \/ AppendXmlElement

SpecXml == InitXml /\ [][NextXml]_vars

(***************************************************************************)
(* Calls in sequence on one generator                                      *)
(***************************************************************************)
MaxCalls == 3          \* calls of computeExamples made on the generator

\* The shapes, representations and options of the calls: a named array of
\* objects (array handling rewrites typeName and parentName of the options
\* object), a union, and a shape with an author example.
RepeatSchemas ==
    {<<[Array(<<Object(<<[name |-> Str(PropertyNames[1]),
                          range |-> <<Scalar(<<XmlSchema(N_integer)>>, <<>>)>>]>>)>>)
           EXCEPT !.name = T_Pet]>>,
     <<Union(<<Scalar(<<XmlSchema(N_integer)>>, <<>>),
               [Scalar(<<XmlSchema(N_string)>>, <<>>) EXCEPT !.name = T_Pet]>>)>>,
     <<[Object(<<>>) EXCEPT
           !.examples = <<ExampleNode(Str(<<"4","2">>), Undef, <<D_object>>, NoSources)>>]>>}
RepeatMimes == {T_json, T_xml}
RepeatOptions == {NoOptions, [NoOptions EXCEPT !.noAuto = TRUE]}

InitRepeat ==
    /\ amf \in BOOLEAN
    /\ schema = <<>>
    /\ mime = Undef
    /\ opts0 = NoOptions
    /\ opts = NoOptions
    /\ value = Undef
    /\ type = Undef
    /\ pc = "ready"
    /\ result = Undef
    /\ payloads = Undef
    /\ xmlDoc = Undef
    /\ log = <<>>
    /\ fmt = Undef
    /\ stack = <<>>

\* A call on a faulty generator that keeps the options object of the call
\* before (`this.opts = this.opts || opts`) and works on it, whatever
\* options the new call brings.
Logged_keptOptions(sch, m, o) ==
    /\ Len(log) < MaxCalls
    /\ Let(computeExamples(sch, m, IF log = <<>> THEN o ELSE opts),
           LAMBDA r :
               /\ result' = r.ret
               /\ opts' = r.opts
               /\ log' = Append(log, [schema |-> sch, mime |-> m, opts |-> o,
                                      result |-> r.ret]))
    /\ schema' = sch
    /\ mime' = m
    /\ opts0' = o
    /\ pc' = "done"
    /\ UNCHANGED <<amf, value, type, payloads, xmlDoc, fmt, stack>>

\* One call of computeExamples with the options object `o`, entered in the
\* log with the content of the options object at the start of the call.
Logged(sch, m, o) ==
    /\ Len(log) < MaxCalls
    /\ Let(computeExamples(sch, m, o),
           LAMBDA r :
               /\ result' = r.ret
               /\ opts' = r.opts
               /\ log' = Append(log, [schema |-> sch, mime |-> m, opts |-> o,
                                      result |-> r.ret]))
    /\ schema' = sch
    /\ mime' = m
    /\ opts0' = o
    /\ pc' = "done"
    /\ UNCHANGED <<amf, value, type, payloads, xmlDoc, fmt, stack>>

\* examples = generator.computeExamples(schema, mime, opts) with a new
\* options object
ComputeWithNewOptions ==
    \E sch \in RepeatSchemas, m \in RepeatMimes, o \in RepeatOptions : Logged(sch, m, o)

\* examples = generator.computeExamples(schema, mime, opts) with the options
\* object of the call before, as that call has left it
ComputeWithSameOptions ==
    /\ log # <<>>
    /\ \E sch \in RepeatSchemas, m \in RepeatMimes : Logged(sch, m, opts)

NextRepeat ==
    \/ ComputeWithNewOptions
    \/ ComputeWithSameOptions

SpecRepeat == InitRepeat /\ [][NextRepeat]_vars

(***************************************************************************)
(* Properties                                                              *)
(***************************************************************************)
Done == pc = "done"
\* The call reaches the body of computeExamples: a shape is given, and a
\* representation unless rawOnly is set.
Called == Done /\ schema # <<>> /\ (Truthy(mime) \/ opts0.rawOnly)
Shape == schema[1]
IsJsonTarget == Truthy(mime) /\ IndexOf(mime.s, S_json) # -1

\* The local name of a datatype identifier: what follows '#' in a full IRI,
\* what follows ':' in a compact one.
NameOf(id) ==
    IF IndexOf(id, <<"#">>) # -1 THEN Substr(id, IndexOf(id, <<"#">>) + 1)
    ELSE IF IndexOf(id, <<":">>) # -1 THEN Substr(id, IndexOf(id, <<":">>) + 1)
    ELSE id
NumericNames == {N_integer, N_number, N_long, N_float, N_double}

\* The zero-value table: numeric -> 0, boolean -> false, nil/null -> null,
\* anything else or no datatype -> "".
TableZero(datatype) ==
    IF datatype = <<>> THEN Str(<<>>)
    ELSE LET n == NameOf(datatype[1])
         IN  IF n \in NumericNames THEN Num(0)
             ELSE IF n = N_boolean THEN Bool(FALSE)
             ELSE IF n \in {N_nil, <<"n","u","l","l">>} THEN Null
             ELSE Str(<<>>)

\* The coercion table: the value a literal text stands for under a datatype
\* identifier.
TableCoerce(v, id) ==
    LET n == NameOf(id)
    IN  IF n = N_boolean
        THEN IF IsUndef(v) THEN Undef ELSE Bool(v = Str(<<"t","r","u","e">>))
        ELSE IF n = N_nil THEN Null
        ELSE IF n \in NumericNames
        THEN IF ~Truthy(v) \/ IsNaNText(v.s) THEN Num(0) ELSE Num(NumberOf(v.s))
        ELSE IF Truthy(v) THEN v ELSE Str(<<>>)

\* C7: a scalar shape with no default value and no example gets the value
\* of the zero-value table for its datatype identifier, whether the
\* identifier is written in full or in compact form.
C7_Case ==
    /\ Called /\ Truthy(mime)
    /\ Shape.types = {"ScalarShape"}
    /\ Shape.examples = <<>> /\ Shape.defaultValue = <<>>
    /\ ~Truthy(Shape.jsonSchema)
    /\ ~opts0.rawOnly /\ ~opts0.noAuto
C7_ZeroValueTable ==
    C7_Case =>
        /\ result.t = "array"
        /\ Len(result.items) = 1
        /\ result.items[1].value = TableZero(Shape.datatype)

\* C8: _typeToValue gives, for every text and every identifier of the
\* vocabulary, the value of the coercion table: true/false/absent for
\* boolean, null for nil, the parsed number or 0 for the numeric types, the
\* text (or the empty string) for any other identifier.
C8_CoercionTable ==
    Done => result = TableCoerce(value, type.s)

\* The author examples of the shape: the list its examples edge holds, with
\* a named-examples wrapper collapsed to its inner list.
AuthorExamples ==
    IF Len(Shape.examples) = 1 /\ _hasType(Shape.examples[1], "NamedExamples")
    THEN Shape.examples[1].examples
    ELSE Shape.examples
\* The examples that survive the filtering by typeId, in their order.
Survives(example) ==
    ~Truthy(opts0.typeId) \/ ListsExample(example, opts0.typeId.s)
Surviving == SelectSeq(AuthorExamples, Survives)
\* What the later steps give for the shape without its author examples.
WithoutExamples ==
    computeExamples(<<[Shape EXCEPT !.examples = <<>>]>>, mime, opts0).ret

\* C1 (as claimed): when at least one author example survives the filtering
\* by typeId, the result holds exactly one view model per surviving example,
\* in the examples' order, and nothing from the later sources.
C1_Case == Called /\ Surviving # <<>>
C1_OnePerSurvivingExample ==
    C1_Case =>
        /\ result.t = "array"
        /\ Len(result.items) = Len(Surviving)
        /\ \A k \in 1..Len(Surviving) :
              result.items[k] = _generateFromExample(Surviving[k], mime, opts0)

\* C1 (amended): when at least one author example survives the filtering by
\* typeId, the result is the list of the view models generated from the
\* surviving examples, in the examples' order, an example that generates
\* nothing being skipped; nothing comes from the later sources.
C1_OnePerGeneratedExample ==
    C1_Case =>
        LET generated == [k \in 1..Len(Surviving) |->
                             _generateFromExample(Surviving[k], mime, opts0)]
            Yields(v) == ~IsUndef(v)
        IN  result = JsArray(SelectSeq(generated, Yields))
\* Two examples survive, one of them generates nothing, and the shape has a
\* JSON schema the later step would have used.
C1_Witness ==
    /\ C1_Case
    /\ Len(Surviving) = 2
    /\ result.t = "array" /\ Len(result.items) = 1
    /\ Truthy(Shape.jsonSchema)

\* C2 (as claimed): when the shape carries author examples and the
\* filtering by typeId leaves none, computeExamples returns what the later
\* steps produce for the shape without its author examples.
C2_Case ==
    Called /\ AuthorExamples # <<>> /\ Truthy(opts0.typeId) /\ Surviving = <<>>
C2_FallsThrough ==
    C2_Case => result = WithoutExamples

\* C2 (amended): when the shape carries author examples and the filtering
\* by typeId leaves none, computeExamples returns absent; no later step is
\* consulted.
C2_ZeroMatchesAbsent ==
    C2_Case => result = Undef
\* No example matches, and the later steps would have produced a result.
C2_Witness ==
    C2_Case /\ result = Undef /\ WithoutExamples.t = "array"

\* C3: with rawOnly set, every view model returned has as value the raw text
\* of an author example of the shape, and the result is absent when no author
\* example of the shape has raw text.
C3_RawOnlyNeverSynthesizes ==
    (Called /\ opts0.rawOnly) =>
        LET raws == {AuthorExamples[k].raw : k \in 1..Len(AuthorExamples)} \ {Undef}
        IN  /\ result.t \in {"array", "undefined"}
            /\ result.t = "array" =>
                  \A k \in 1..Len(result.items) : result.items[k].value \in raws
            /\ raws = {} => result = Undef

RECURSIVE HasStoredExample(_)
\* Whether the subgraph of a shape holds an example node.
HasStoredExample(shape) ==
    \/ _hasType(shape, "Example")
    \/ shape.examples # <<>>
    \/ \E k \in 1..Len(shape.items) : HasStoredExample(shape.items[k])
    \/ \E k \in 1..Len(shape.anyOf) : HasStoredExample(shape.anyOf[k])
    \/ \E k \in 1..Len(shape.property) :
          /\ shape.property[k].range # <<>>
          /\ HasStoredExample(shape.property[k].range[1])

\* C4: with noAuto set, a shape whose subgraph holds no stored example node
\* gets an absent result, never a synthesized value.
C4_NoAutoAbsent ==
    (Called /\ opts0.noAuto /\ ~HasStoredExample(Shape)) => result = Undef

RECURSIVE OutputInvariant(_)
\* The output invariant of a view model and of the view models it holds.
OutputInvariant(vm) ==
    IF vm.hasUnion = Bool(TRUE)
    THEN /\ vm.values # <<>>
         /\ IsUndef(vm.value) /\ IsUndef(vm.raw)
         /\ \A k \in 1..Len(vm.values) : OutputInvariant(vm.values[k])
    ELSE /\ ~IsUndef(vm.value)
         /\ ~IsUndef(vm.raw) <=> vm.hasRaw = Bool(TRUE)
         /\ ~IsUndef(vm.title) <=> vm.hasTitle = Bool(TRUE)

\* C5: every view model computeExamples returns, at top level or inside a
\* union's values, satisfies the output invariant: with hasUnion, values is a
\* non-empty list and value and raw are absent; without, value is set, raw is
\* present exactly when hasRaw is true and title exactly when hasTitle is.
C5_OutputInvariant ==
    (Done /\ result.t = "array") =>
        \A k \in 1..Len(result.items) : OutputInvariant(result.items[k])

\* C6: computeExamples completes by returning a list of view models or
\* absent; no exception reaches the caller.
C6_NoFatalErrors ==
    Done => result.t \in {"array", "undefined"}

\* A bracket-delimited text.
InBrackets(v) ==
    v.t = "string" /\ Len(v.s) >= 2 /\ v.s[1] = "[" /\ v.s[Len(v.s)] = "]"

\* C9: when array handling produces a JSON result for an array shape, every
\* value of the result is bracket-delimited: the value of each plain view
\* model and the value of every entry of a union view model's values,
\* whatever the kind of the inner value.
C9_Case ==
    /\ Called /\ IsJsonTarget /\ ~opts0.rawOnly
    /\ _hasType(Shape, "ArrayShape")
    /\ Shape.examples = <<>> /\ ~Truthy(Shape.jsonSchema)
    /\ result.t = "array"
C9_ArrayValuesBracketed ==
    C9_Case =>
        \A k \in 1..Len(result.items) :
            LET vm == result.items[k]
            IN  IF vm.values # <<>>
                THEN \A j \in 1..Len(vm.values) :
                        IsUndef(vm.values[j].value) \/ InBrackets(vm.values[j].value)
                ELSE IsUndef(vm.value) \/ InBrackets(vm.value)

RECURSIVE MappingOf(_, _, _)
RECURSIVE ValueOf(_)
RECURSIVE ListOf(_, _, _)
\* The value an object example holds for a range: the coerced default or the
\* zero value of a scalar, the mapping of an object, the list of an array,
\* null for nil, and the value of the first usable alternative of a union.
ValueOf(range) ==
    IF _hasType(range, "ScalarShape")
    THEN IF range.defaultValue # <<>> /\ Truthy(range.defaultValue[1])
         THEN IF range.datatype = <<>> THEN range.defaultValue[1]
              ELSE TableCoerce(range.defaultValue[1], range.datatype[1])
         ELSE TableZero(range.datatype)
    ELSE IF _hasType(range, "UnionShape") THEN _computeJsonUnionValue(range, Undef)
    ELSE IF _hasType(range, "NodeShape")
    THEN IF range.property # <<>>
         THEN MappingOf(range.property, 1, JsObject(<<>>, <<>>)) ELSE Undef
    ELSE IF _hasType(range, "ArrayShape") THEN ListOf(range.items, 1, <<>>)
    ELSE IF _hasType(range, "NilShape") THEN Null
    ELSE Undef
\* The list of the values of the items that produce one.
ListOf(items, i, acc) ==
    IF i > Len(items) THEN JsArray(acc)
    ELSE ListOf(items, i + 1,
                IF IsUndef(ValueOf(items[i])) THEN acc ELSE Append(acc, ValueOf(items[i])))
\* The mapping with one key per property that has a name and a range, in
\* declaration order; a range that produces nothing gives the empty string.
MappingOf(properties, i, obj) ==
    IF i > Len(properties) THEN obj
    ELSE LET p == properties[i]
         IN  MappingOf(properties, i + 1,
                 IF ~Truthy(p.name) \/ p.range = <<>> THEN obj
                 ELSE LET v == ValueOf(p.range[1])
                      IN  JsObject(Append(obj.keys, p.name.s),
                                   Append(obj.vals, IF IsUndef(v) THEN Str(<<>>) ELSE v)))

\* C10: an object shape with declared properties and no stored examples,
\* requested as JSON with synthesis enabled, gets as value the serialization
\* of the mapping with one key per property that has a name and a range, in
\* declaration order, each mapped to the value synthesized from its range.
C10_Case ==
    /\ Called /\ IsJsonTarget /\ ~opts0.rawOnly /\ ~opts0.noAuto
    /\ Shape.types = {"NodeShape"} /\ Shape.property # <<>>
    /\ ~HasStoredExample(Shape) /\ ~Truthy(Shape.jsonSchema)
C10_ObjectSynthesis ==
    C10_Case =>
        /\ result.t = "array"
        /\ Len(result.items) = 1
        /\ result.items[1].value =
              Str(JSONstringify(MappingOf(Shape.property, 1, JsObject(<<>>, <<>>))))

\* The options object as the union resolver receives it: computeExamples has
\* set typeName from the shape's name when the caller gave none.
UnionOptions ==
    IF ~Truthy(opts0.typeName) /\ Truthy(Shape.name)
       /\ IndexOf(Shape.name.s, S_amf_inline_type) # 0
    THEN [opts0 EXCEPT !.typeName = Shape.name] ELSE opts0
RECURSIVE AlternativeCall(_)
\* The call of computeExamples for alternative k, with the options object as
\* the calls for the alternatives before it have left it.
AlternativeCall(k) ==
    computeExamples(<<Shape.anyOf[k]>>, mime,
                    IF k = 1 THEN UnionOptions ELSE AlternativeCall(k - 1).opts)
\* The positions of the alternatives whose call yields a result, in
\* declaration order.
Yielding ==
    LET Yields(k) == ~IsUndef(AlternativeCall(k).ret)
    IN  SelectSeq([k \in 1..Len(Shape.anyOf) |-> k], Yields)
\* The title of alternative k: its declared name, or "Union #k".
TitleOf(k) ==
    IF Truthy(Shape.anyOf[k].name) THEN Shape.anyOf[k].name
    ELSE Str(S_UnionNo \o NumberToText(k))

\* C11: for a union shape the result is one view model with hasUnion true
\* whose values holds, in declaration order, one entry per alternative for
\* which computeExamples yields a result; entry j has hasTitle true and as
\* title the declared name of its alternative, or "Union #k" with k the
\* alternative's position in the declared list; the result is absent when no
\* alternative yields a result.
C11_Case ==
    /\ Called /\ Truthy(mime) /\ ~opts0.rawOnly
    /\ Shape.types = {"UnionShape"} /\ Shape.anyOf # <<>>
    /\ Shape.examples = <<>> /\ ~Truthy(Shape.jsonSchema)
C11_UnionEntries ==
    C11_Case =>
        IF Yielding = <<>> THEN result = Undef
        ELSE /\ result.t = "array"
             /\ Len(result.items) = 1
             /\ result.items[1].hasUnion = Bool(TRUE)
             /\ Len(result.items[1].values) = Len(Yielding)
             /\ \A j \in 1..Len(Yielding) :
                   /\ result.items[1].values[j].hasTitle = Bool(TRUE)
                   /\ result.items[1].values[j].title = TitleOf(Yielding[j])

IsXmlTarget == Truthy(mime) /\ ~IsJsonTarget /\ IndexOf(mime.s, S_xml) # -1
\* The text parses to a JSON object or array.
IsJsonContainer(text) ==
    /\ JSONparseTypeof(text) # "error"
    /\ text[SkipWs(text, 1)] \in {"{", "["}
\* The raw text is directly usable for the target.
Usable(raw) ==
    \/ IsJsonTarget /\ IsJsonContainer(raw.s)
    \/ IsXmlTarget /\ Trim(raw.s) # <<>> /\ Trim(raw.s)[1] = "<"
\* What the structured value gives as a value: the typed literal of a scalar,
\* else its JSON text or its XML text.
FromStructure(structure) ==
    IF _hasType(structure, "Scalar") THEN {_getTypedValue(structure)}
    ELSE {Str(JSONstringify(data)) : data \in {_jsonFromStructure(structure)} \ {Undef}}
           \cup {_xmlFromStructure(structure, opts)}
\* The one author example of the shape, generated without rawOnly and
\* without a typeId to filter by; it has raw text.
TheExample == Shape.examples[1]
C12_Case ==
    /\ Called /\ Truthy(mime) /\ ~opts0.rawOnly /\ ~Truthy(opts0.typeId)
    /\ Len(Shape.examples) = 1 /\ TheExample.types = {"Example"}
    /\ Truthy(TheExample.raw)

\* C12: without rawOnly, the raw text of an example becomes the value
\* unmodified, with hasRaw false, exactly when it is directly usable for the
\* target (JSON: it parses to an object or array; XML: its trimmed text
\* begins with '<'); in every other case with raw text, hasRaw is true, raw
\* holds the text, and value comes from the structured value if the example
\* has one and otherwise equals the raw text.
C12_RawUsability ==
    C12_Case =>
        /\ result.t = "array"
        /\ Len(result.items) = 1
        /\ LET vm == result.items[1]
               raw == TheExample.raw
           IN  IF Usable(raw)
               THEN vm.hasRaw = Bool(FALSE) /\ vm.value = raw
               ELSE /\ vm.hasRaw = Bool(TRUE)
                    /\ vm.raw = raw
                    /\ IF TheExample.structuredValue = <<>> THEN vm.value = raw
                       ELSE vm.value \in FromStructure(TheExample.structuredValue[1])

\* The payloads as a list, and the options object the call works on.
PayloadList == IF payloads.t = "array" THEN payloads.items ELSE <<payloads>>
OwnOptions == IF opts0 = Undef THEN NoOptions ELSE opts0
\* The positions of the payloads that are candidates for the media type: all
\* of them when none is given.
Candidates ==
    {k \in 1..Len(PayloadList) : ~Truthy(mime) \/ PayloadList[k].mediaType = mime}
Selected == CHOOSE k \in Candidates : \A j \in Candidates : k <= j

\* C13: generatePayloadsExamples returns what generatePayloadExamples returns
\* for the first payload in list order whose media type equals media (the
\* first payload when media is absent and rawOnly is set); it returns absent
\* when payloads is absent, when media is absent and rawOnly is not set, or
\* when no payload's media type equals media; a single payload is treated as
\* a one-element list.
C13_DelegatesToFirstMatch ==
    pc = "generatePayloadsExamples" =>
        IF IsUndef(payloads) \/ (~Truthy(mime) /\ ~OwnOptions.rawOnly)
        THEN result = Undef
        ELSE IF Candidates = {} THEN result = Undef
        ELSE result = generatePayloadExamples(PayloadList[Selected], mime, OwnOptions).ret
\* The second payload of a list is the first of the media type, and its
\* examples are returned.
C13_Witness ==
    /\ pc = "generatePayloadsExamples"
    /\ payloads.t = "array" /\ Len(payloads.items) = 2
    /\ Truthy(mime) /\ Candidates # {} /\ Selected = 2
    /\ result.t = "array" /\ result.items # <<>>

\* The argument of generatePayloadExamples is a payload that declares a
\* schema.
IsPayloadWithSchema ==
    payloads.t = "node" /\ _hasType(payloads, "Payload") /\ payloads.schema # <<>>

\* C14: generatePayloadExamples with an options object returns absent when
\* its input is not a payload shape or declares no schema; otherwise it sets
\* options.typeId to the payload's identifier and returns what
\* computeExamples returns for the payload's first schema with that media
\* type and those options.
C14_PayloadExamples ==
    (pc = "generatePayloadExamples" /\ opts0 # Undef) =>
        IF ~IsPayloadWithSchema THEN result = Undef /\ opts = opts0
        ELSE /\ opts.typeId = payloads.id
             /\ result = computeExamples(<<payloads.schema[1]>>, mime,
                                         [opts0 EXCEPT !.typeId = payloads.id]).ret
\* Examples are returned for a payload, and typeId has been written to the
\* caller's options object.
C14_Witness ==
    /\ pc = "generatePayloadExamples" /\ opts0 # Undef
    /\ IsPayloadWithSchema
    /\ opts0.typeId # payloads.id /\ opts.typeId = payloads.id
    /\ result.t = "array" /\ result.items # <<>>

\* C15: generatePayloadExamples called without the options argument, for a
\* payload shape that declares a schema, completes and returns what the call
\* with an empty options object returns.
C15_OptionsOmitted ==
    (pc = "generatePayloadExamples" /\ opts0 = Undef /\ IsPayloadWithSchema) =>
        /\ result # Throw
        /\ result = generatePayloadExamples(payloads, mime, NoOptions).ret

\* C16: listMedia returns, for a list of payload shapes, the list of their
\* media types, of the same length and in the same order, and for a single
\* payload shape a one-element list; it returns absent when the input is
\* absent, is an empty list, or is not a payload shape.
C16_ListMedia ==
    pc = "listMedia" =>
        IF IsUndef(payloads) THEN result = Undef
        ELSE IF payloads.t = "node"
        THEN IF _hasType(payloads, "Payload")
             THEN result = JsArray(<<payloads.mediaType>>)
             ELSE result = Undef
        ELSE IF payloads.items = <<>> THEN result = Undef
        ELSE (\A k \in 1..Len(payloads.items) : _hasType(payloads.items[k], "Payload")) =>
                 /\ result.t = "array"
                 /\ Len(result.items) = Len(payloads.items)
                 /\ \A k \in 1..Len(payloads.items) :
                       result.items[k] = payloads.items[k].mediaType

\* The author examples of the shape as _processExamples lists them.
Listed == _processExamples(Shape.examples)
\* The identifier list of an example's tracked-element linkage.
LinkedIds(example) ==
    IF Truthy(example.sources.value) THEN Split(example.sources.value.s, ",") ELSE <<>>
\* An example without source map or tracked-element linkage is kept; one
\* with linkage is kept when its list holds the type identifier, bare or
\* with the "amf://id" prefix.
KeptFor(example) ==
    \/ ~example.sources.sm
    \/ ~example.sources.tracked
    \/ Contains(LinkedIds(example), opts0.typeId.s)
    \/ Contains(LinkedIds(example), S_amfId \o opts0.typeId.s)
Kept == IF Truthy(opts0.typeId) THEN SelectSeq(Listed.items, KeptFor) ELSE Listed.items
C17_Case ==
    /\ Called /\ Shape.examples # <<>> /\ Listed.t = "array"

\* C17: with options.typeId set, an example that carries tracked-element
\* linkage is kept if and only if the identifier list of the linkage holds
\* the type identifier, bare or in its "amf://id"-prefixed form; examples
\* without source-map or tracked-element linkage are always kept; the order
\* of the kept examples is preserved; without typeId the list is unfiltered.
\* The result of the call is what the kept examples generate, in their order.
C17_KeepsLinked ==
    C17_Case =>
        result = IF Kept = <<>> THEN Undef
                 ELSE FromExamples(Kept, 1, mime, UnionOptions, <<>>)
\* Of two examples the first is dropped and the second kept.
C17_Witness ==
    /\ C17_Case /\ Truthy(opts0.typeId)
    /\ Len(Listed.items) = 2 /\ Kept = <<Listed.items[2]>>
    /\ result.t = "array" /\ Len(result.items) = 1

\* The characters a sanitized name is made of, and a name without the others.
\* The elements of a sequence.
Range(seq) == {seq[k] : k \in 1..Len(seq)}
NameChars == Alpha \cup {"_", "-"} \cup {Digits[d] : d \in 1..10}
Sanitized(name) == SelectSeq(name, LAMBDA c : c \in NameChars)
\* A list name without its plural ending, as the items of a structured
\* array are named.
Singular(name) ==
    LET n == Len(name)
    IN  IF n >= 2 /\ SubSeq(name, n - 1, n) = <<"e", "s">> THEN SubSeq(name, 1, n - 2)
        ELSE IF n >= 1 /\ name[n] = "s" THEN SubSeq(name, 1, n - 1)
        ELSE name
RECURSIVE DataNames(_)
\* The names a structured value declares: the local names of its keys, at
\* every depth.
DataNames(structure) ==
    UNION {{NameOf(structure.props[k].key)} \cup DataNames(structure.props[k].node) :
              k \in 1..Len(structure.props)}
      \cup UNION {DataNames(structure.member[k]) : k \in 1..Len(structure.member)}
RECURSIVE ShapeNames(_)
\* The names a shape declares, at every depth: its own, its xml name, those
\* of its properties, items and alternatives, and those of the structured
\* values of its examples.
ShapeNames(shape) ==
    {n.s : n \in ({shape.name} \cup {ser.xmlName : ser \in Range(shape.xmlSerialization)})
                   \ {Undef}}
      \cup UNION {ShapeNames(x) : x \in Range(shape.items) \cup Range(shape.anyOf)}
      \cup UNION {ShapeNames(p.range[1]) : p \in {q \in Range(shape.property) : q.range # <<>>}}
      \cup UNION {DataNames(e.structuredValue[1]) :
                     e \in {x \in Range(shape.examples) : x.structuredValue # <<>>}}
\* The names the call is given: those of the type and its parent, and those
\* the shape or the structured value declares.
DeclaredNames ==
    {UNKNOWN_TYPE} \cup {n.s : n \in {opts0.typeName, opts0.parentName} \ {Undef}}
      \cup (IF pc = "structure" THEN DataNames(schema[1].structuredValue[1])
            ELSE ShapeNames(schema[1]))
ExpectedNames ==
    {Sanitized(n) : n \in DeclaredNames} \cup {Singular(Sanitized(n)) : n \in DeclaredNames}
      \cup {Singular(Singular(Sanitized(n))) : n \in DeclaredNames}
RECURSIVE Attached(_, _)
\* The nodes of the tree under a node, the node included.
Attached(d, id) ==
    {id} \cup UNION {Attached(d, d.nodes[id].kids[k]) : k \in 1..Len(d.nodes[id].kids)}
\* The element and attribute names of the document the builder has built.
EmittedNames ==
    IF xmlDoc.t # "document" \/ xmlDoc.root = 0 THEN {}
    ELSE LET elements == {k \in Attached(xmlDoc, xmlDoc.root) :
                             xmlDoc.nodes[k].kind = "element"}
         IN  {xmlDoc.nodes[k].name : k \in elements}
               \cup UNION {{a.name : a \in Range(xmlDoc.nodes[k].attrs)} : k \in elements}

\* C18: every element name and attribute name the XML builder emits is made
\* of characters of [A-Za-z0-9_-] only and is a declared name without its
\* other characters (every '?' removed, every underscore kept): the builder
\* completes, and this holds for root and wrapper elements, property
\* elements, array item elements and attributes.
C18_SanitizedNames ==
    pc \in {"properties", "structure"} =>
        /\ xmlDoc # Throw
        /\ \A name \in EmittedNames :
              /\ \A k \in 1..Len(name) : name[k] \in NameChars
              /\ name \in ExpectedNames

\* The object example synthesized from the shape's declared properties: what
\* the call gives for the shape without its JSON schema, for a JSON target.
SynthesizedFromProperties ==
    computeExamples(<<[Shape EXCEPT !.jsonSchema = Undef]>>, T_json, NoOptions).ret
C19_Case == Called /\ Shape.examples = <<>> /\ Truthy(Shape.jsonSchema)

SameInputs(i, j) ==
    /\ log[i].schema = log[j].schema
    /\ log[i].mime = log[j].mime
    /\ log[i].opts = log[j].opts

NoAbsentEntry(list) ==
    \A k \in 1..Len(list) :
        /\ ~IsUndef(list[k])
        /\ \A j \in 1..Len(list[k].values) : ~IsUndef(list[k].values[j])

\* C28: computeExamples returns absent or a non-empty list: never an empty
\* list of view models, and no entry of a returned list or of a union's
\* values is absent; also when the shape carries author examples none of
\* which generates a value.
C28_AbsentOrNonEmpty ==
    (Done /\ result # Throw) =>
        \/ result = Undef
        \/ /\ result.t = "array"
           /\ result.items # <<>>
           /\ NoAbsentEntry(result.items)

\* The call goes into array generation, or into the union resolver: the two
\* steps of computeExamples that call it again for the shapes below.
ReachesSynthesis ==
    /\ Called /\ Shape.examples = <<>> /\ ~Truthy(Shape.jsonSchema) /\ ~opts0.rawOnly
GeneratesArray == ReachesSynthesis /\ _hasType(Shape, "ArrayShape") /\ Shape.items # <<>>
ResolvesUnion == ReachesSynthesis /\ _hasType(Shape, "UnionShape") /\ Shape.anyOf # <<>>
\* The items of the array are shapes without shapes below them.
ItemsAreLeaves ==
    \A k \in 1..Len(Shape.items) :
        /\ Shape.items[k].items = <<>>
        /\ Shape.items[k].anyOf = <<>>
\* The names the call for an item may bind to typeName.
ItemNames ==
    {Shape.items[k].name : k \in 1..Len(Shape.items)} \ {Undef}

\* C22: computeExamples leaves rawOnly, noAuto and typeId of the options
\* object as they were and writes typeName and parentName only: typeName is
\* bound to the shape's declared name when it is unset and the name is not an
\* inline-type placeholder; array generation sets parentName to the typeName
\* then in effect and removes typeName before it goes into the items; a call
\* that returns at the entry guard leaves the object as it was.
C22_OptionsFrame ==
    Done =>
        /\ opts.rawOnly = opts0.rawOnly
        /\ opts.noAuto = opts0.noAuto
        /\ opts.typeId = opts0.typeId
        /\ ~Called => opts = opts0
        /\ (Called /\ ~GeneratesArray /\ ~ResolvesUnion) => opts = UnionOptions
        /\ (GeneratesArray /\ ItemsAreLeaves) =>
              /\ opts.parentName = UnionOptions.typeName
              /\ opts.typeName \in {Undef} \cup ItemNames
\* A named array has been generated with options that had no typeName: the
\* name is now parentName, and typeName is unset again.
C22_Witness ==
    /\ GeneratesArray /\ ItemsAreLeaves /\ result.t = "array"
    /\ ~Truthy(opts0.typeName) /\ ~Truthy(opts0.parentName)
    /\ Truthy(Shape.name)
    /\ opts.parentName = Shape.name /\ opts.typeName = Undef

\* The call of computeExamples for alternative k alone, with the options as
\* they are on entry to the union resolver.
AloneCall(k) == computeExamples(<<Shape.anyOf[k]>>, mime, UnionOptions)
C29_Case == C11_Case /\ result.t = "array" /\ result.items # <<>>

\* C29: in the result of a union, the view model of an alternative is the
\* first one computeExamples returns for that alternative alone with the
\* options as they were on entry to the union, under the alternative's
\* title: it does not depend on the alternatives processed before it.
C29_AlternativesIndependent ==
    C29_Case =>
        \A j \in 1..Len(Yielding) :
            LET alone == AloneCall(Yielding[j]).ret
            IN  /\ alone.t = "array" /\ alone.items # <<>>
                /\ result.items[1].values[j] =
                       [alone.items[1] EXCEPT !.hasTitle = Bool(TRUE),
                                              !.title = TitleOf(Yielding[j])]

\* The element the builder renders into: the document element, or the
\* element of the type under the element of its parent type.
MainElement ==
    Created(XmlDocumentFromProperties(
                <<>>,
                IF pc = "properties" /\ Truthy(opts0.typeName) THEN opts0.typeName.s
                ELSE UNKNOWN_TYPE,
                opts0.parentName))
\* The child elements of a node of the document built, in order, and the
\* text a node holds directly.
ChildElements(id) ==
    SelectSeq(xmlDoc.nodes[id].kids, LAMBDA k : xmlDoc.nodes[k].kind = "element")
TextNodes(id) ==
    SelectSeq(xmlDoc.nodes[id].kids, LAMBDA k : xmlDoc.nodes[k].kind = "text")
\* A name without the characters that are neither letters nor digits.
Skeleton(name) == SelectSeq(name, LAMBDA c : c \in Alpha \/ IsDigit(c))

\* The range the call renders: the argument of _appendXmlElement, or the
\* range of the only property of the shape.
RenderedAlone ==
    \/ pc = "element"
    \/ pc = "properties" /\ Len(schema[1].property) = 1 /\ schema[1].property[1].range # <<>>
TheRange == IF pc = "element" THEN schema[1] ELSE schema[1].property[1].range[1]
TheSerialization ==
    IF TheRange.xmlSerialization = <<>> THEN XmlSerialization
    ELSE TheRange.xmlSerialization[1]
\* A named scalar range that reaches the last rule: no author examples on
\* the way through _xmlProcessProperty, no attribute serialization.
PlainScalar ==
    /\ RenderedAlone
    /\ _hasType(TheRange, "ScalarShape") /\ Truthy(TheRange.name)
    /\ pc = "properties" => /\ TheRange.examples = <<>>
                            /\ ~Truthy(TheSerialization.xmlAttribute)
\* The raw text of the example attached to the range: of the first example,
\* or of the first example of a named-examples wrapper.
AttachedRaw ==
    IF TheRange.examples = <<>> THEN Undef
    ELSE LET first == TheRange.examples[1]
         IN  IF "NamedExamples" \in first.types
             THEN IF first.examples = <<>> THEN Undef ELSE first.examples[1].raw
             ELSE first.raw

StartDocument ==
    XmlDocumentFromProperties(
        <<>>, IF Truthy(opts0.typeName) THEN opts0.typeName.s ELSE UNKNOWN_TYPE,
        opts0.parentName)
TheProperty == schema[1].property[1]
\* The rule that decides for a range when the rules are tried in the listed
\* order.
ListedRule(range) ==
    LET serialization == IF range.xmlSerialization = <<>> THEN XmlSerialization
                         ELSE range.xmlSerialization[1]
    IN  IF Truthy(serialization.xmlAttribute) THEN "attribute"
        ELSE IF _hasType(range, "UnionShape") THEN "union"
        ELSE IF range.examples # <<>> THEN "examples"
        ELSE IF _hasType(range, "NodeShape") THEN "object"
        ELSE IF _hasType(range, "ArrayShape") THEN "array"
        ELSE "scalar"
\* The document the rule gives for the property, rendered into the node.
RenderedBy(rule, doc, node, property) ==
    LET range == property.range[1]
        serialization == IF range.xmlSerialization = <<>> THEN XmlSerialization
                         ELSE range.xmlSerialization[1]
    IN  CASE rule = "attribute" ->
                 _appendXmlAttribute(doc, node, property, range, serialization)
          [] rule = "union" ->
                 IF range.anyOf = <<>> THEN doc
                 ELSE IF _hasType(range.anyOf[1], "ScalarShape")
                 THEN _xmlProcessUnionScalarProperty(doc, node, property, range.anyOf[1])
                 ELSE _xmlProcessProperty(doc, node, range.anyOf[1])
          [] rule = "examples" ->
                 _xmlFromExamples(doc, node, range.examples[1],
                                  IF Truthy(serialization.xmlName) THEN serialization.xmlName
                                  ELSE range.name)
          [] rule = "object" -> _appendXmlElements(doc, node, property, range)
          [] rule = "array" ->
                 _appendXmlArray(doc, node, property, range,
                                 Truthy(serialization.xmlWrapped))
          [] OTHER -> LET r == _appendXmlElement(doc, node, range)
                      IN  IF r = Throw THEN Throw ELSE r.doc
C23_Case == pc = "properties" /\ RenderedAlone /\ StartDocument # Throw

\* C23: a property is rendered by the first rule that matches, in the order
\* attribute serialization, union range, range with its own examples, object
\* range, array range, plain scalar; a range that declares attribute
\* serialization gives an attribute on the current element and no child
\* element, also when it is a union or carries examples.
C23_RuleOrder ==
    C23_Case =>
        /\ xmlDoc = RenderedBy(ListedRule(TheRange), StartDocument, MainElement, TheProperty)
        /\ (ListedRule(TheRange) = "attribute" /\ xmlDoc # Throw) =>
              /\ xmlDoc.nodes[MainElement].attrs # <<>>
              /\ ChildElements(MainElement) = <<>>

\* The property's range is a union that only the union rule can take: no
\* author examples, no attribute serialization.
C24_Case ==
    /\ C23_Case
    /\ _hasType(TheRange, "UnionShape") /\ TheRange.anyOf # <<>>
    /\ TheRange.examples = <<>> /\ ~Truthy(TheSerialization.xmlAttribute)

\* C24: for a union range whose first alternative is a scalar shape the
\* parent element gains a placeholder child element, named after the
\* property, whose text is the alternative's datatype name; when the first
\* alternative is not scalar the builder recurses into it.
C24_UnionPlaceholder ==
    C24_Case =>
        IF _hasType(TheRange.anyOf[1], "ScalarShape")
        THEN /\ xmlDoc # Throw
             /\ Len(ChildElements(MainElement)) = 1
             /\ LET element == ChildElements(MainElement)[1]
                IN  /\ xmlDoc.nodes[element].name = TheProperty.name.s
                    /\ Len(TextNodes(element)) = 1
                    /\ Str(xmlDoc.nodes[TextNodes(element)[1]].text)
                          = _readDataType(TheRange.anyOf[1])
        ELSE xmlDoc = _xmlProcessProperty(StartDocument, MainElement, TheRange.anyOf[1])

\* The property's range is an array that only the array rule can take; its
\* items carry a name each when the array is wrapped.
C25_Case ==
    /\ C23_Case
    /\ _hasType(TheRange, "ArrayShape") /\ TheRange.items # <<>>
    /\ TheRange.examples = <<>> /\ ~Truthy(TheSerialization.xmlAttribute)
    /\ Truthy(TheRange.name)
    /\ Truthy(TheSerialization.xmlWrapped) =>
           \A k \in 1..Len(TheRange.items) : Truthy(TheRange.items[k].name)
RECURSIVE ItemsInto(_, _, _)
\* The items of an array that is not wrapped, rendered into the node one
\* after the other from item i on.
ItemsInto(doc, node, i) ==
    IF i > Len(TheRange.items) \/ doc = Throw THEN doc
    ELSE ItemsInto(_xmlProcessProperty(doc, node, TheRange.items[i]), node, i + 1)

\* C25: for a wrapped array range with k named items the parent gains
\* exactly one wrapper element, named after the range, and the wrapper has
\* exactly k item child elements, siblings in the order of the items;
\* without wrapped serialization there is no wrapper and what the items give
\* is appended to the parent itself.
C25_WrappedArray ==
    C25_Case =>
        IF Truthy(TheSerialization.xmlWrapped)
        THEN /\ xmlDoc # Throw
             /\ Len(ChildElements(MainElement)) = 1
             /\ LET wrapper == ChildElements(MainElement)[1]
                    children == ChildElements(wrapper)
                IN  /\ Skeleton(xmlDoc.nodes[wrapper].name) = Skeleton(TheRange.name.s)
                    /\ Len(children) = Len(TheRange.items)
                    /\ \A k \in 1..Len(children) :
                          Skeleton(xmlDoc.nodes[children[k]].name)
                              = Skeleton(TheRange.items[k].name.s)
        ELSE xmlDoc = ItemsInto(StartDocument, MainElement, 1)

\* The examples of the range of the shape's only property, and the shape
\* with example k alone on that range.
RangeExamplesOf(shape) == shape.property[1].range[1].examples
WithOnly(k) ==
    [Shape EXCEPT !.property[1].range[1].examples = <<RangeExamplesOf(Shape)[k]>>]
\* The examples the representation shows: those that alone on the range
\* give the value that the whole list gives.
ShownIn(m) ==
    {k \in 1..Len(RangeExamplesOf(Shape)) :
        computeExamples(<<Shape>>, m, opts0).ret = computeExamples(<<WithOnly(k)>>, m, opts0).ret}
C30_Case ==
    /\ Called /\ Shape \in WithRangeExamples /\ Len(RangeExamplesOf(Shape)) >= 2
    /\ mime \in {T_json, T_xml} /\ result.t = "array"

\* C30: for an object property whose range carries several example nodes
\* with structured values, the JSON synthesis and the XML synthesis take the
\* property's data from the same example node: some example of the range,
\* alone, gives the value of the call in both representations.
C30_SameExample ==
    C30_Case =>
        \E k \in ShownIn(T_json) \cap ShownIn(T_xml) :
            result = computeExamples(<<WithOnly(k)>>, mime, opts0).ret


(***************************************************************************)
(* formatXml, one line of its loop at a time                               *)
(***************************************************************************)
\* Author examples whose values span lines, hold empty siblings or nest,
\* next to the ones above.
FormatStructures ==
    LET empty == [D_object EXCEPT !.props = <<>>]
    IN  XmlStructures \cup
        {[D_object EXCEPT !.props =
             <<[key |-> DataKey(<<"k">>),
                node |-> ScalarData(<<"a","\n","b","\n","c">>, XmlSchema(N_string))]>>],
         [D_object EXCEPT !.props =
             <<[key |-> DataKey(<<"a">>), node |-> empty],
               [key |-> DataKey(<<"b">>), node |-> empty],
               [key |-> DataKey(<<"o">>), node |-> D_object]>>],
         [D_object EXCEPT !.props =
             <<[key |-> DataKey(<<"o">>), node |-> D_object],
               [key |-> DataKey(<<"a">>), node |-> empty],
               [key |-> DataKey(N_first_name), node |-> D_text]>>]}
FormatExamples == {ExampleNode(Undef, Undef, <<sv>>, NoSources) : sv \in FormatStructures}
FormatShapes == {Object(<<p>>) : p \in XmlProperties}

\* Texts handed to formatXml as they are: documents that hold line breaks,
\* text between elements and comments.
FormatTexts ==
    {<<"<","a",">","\n","<","b","/",">","\n","t","e","x","t","\n","<","c",">","x","<","/","c",">","\n","m","o","r","e","\n","<","/","a",">">>,
     <<"<","!","-","-"," ","c"," ","-","-",">","\n","<","a","/",">","\n","<","!","-","-"," ","d"," ","-","-",">","\n","<","b",">"," "," ","\n","<","/","b",">">>,
     <<"<","a",">","<","b",">","1","<","/","b",">","<","/","a",">">>}

\* xml.replace(reg, ...).replace(wsexp, ...).replace(contexp, ...).split('\n')
FormatXmlLines(xml) ==
    LET broken == BreakBetweenTags(xml)
        trimmed == Join(EachLine(Split(broken, "\n"), TRUE))
        split == Join(EachLine(Split(trimmed, "\n"), FALSE))
    IN  Split(split, "\n")

InitFormat ==
    /\ amf \in BOOLEAN
    /\ \/ /\ schema \in {<<x>> : x \in FormatShapes \cup FormatExamples}
          /\ value = Undef
       \/ /\ schema = <<>>
          /\ value \in {Str(t) : t \in FormatTexts}
    /\ mime = T_xml
    /\ opts0 \in XmlOptions
    /\ opts = opts0
    /\ type = Undef
    /\ pc = "ready"
    /\ result = Undef
    /\ payloads = Undef
    /\ xmlDoc = Undef
    /\ log = <<>>
    /\ fmt = Undef
    /\ stack = <<>>

\* The document whose text formatXml is given: the one _xmlFromStructure
\* builds for an author example, the one _xmlExampleFromProperties builds
\* for an object.
FormatDocument ==
    IF _hasType(schema[1], "Example")
    THEN XmlDocumentFromStructure(schema[1].structuredValue[1], opts)
    ELSE XmlDocumentFromProperties(
             schema[1].property,
             IF Truthy(opts.typeName) THEN opts.typeName.s ELSE UNKNOWN_TYPE,
             opts.parentName)

\* formatXml('<?xml version="1.0" encoding="UTF-8"?>' + text), up to its loop
FormatXmlBegin ==
    /\ pc = "ready"
    /\ schema # <<>>
    /\ xmlDoc' = FormatDocument
    /\ IF FormatDocument = Throw
       THEN /\ result' = Throw
            /\ pc' = "done"
            /\ fmt' = fmt
       ELSE LET xml == XmlDeclaration \o serializeToString(FormatDocument)
            IN  /\ fmt' = [xml |-> xml, lines |-> FormatXmlLines(xml), i |-> 1,
                           formatted |-> <<>>, indent |-> 0, lastType |-> "other"]
                /\ pc' = "lines"
                /\ result' = result
    /\ UNCHANGED <<amf, schema, mime, opts0, opts, value, type, payloads, log, stack>>

\* formatXml(value), up to its loop
FormatXmlText ==
    /\ pc = "ready"
    /\ schema = <<>>
    /\ fmt' = [xml |-> value.s, lines |-> FormatXmlLines(value.s), i |-> 1,
               formatted |-> <<>>, indent |-> 0, lastType |-> "other"]
    /\ pc' = "lines"
    /\ UNCHANGED <<amf, schema, mime, opts0, opts, value, type, result, payloads, xmlDoc,
                   log, stack>>

\* for (let i = 0; i < lines.length; i++) { ... }: one pass of the body
FormatXmlLine ==
    /\ pc = "lines"
    /\ fmt.i <= Len(fmt.lines)
    /\ LET ln == fmt.lines[fmt.i]
           ty == LineType(ln)
           to == fmt.indent + transitions(fmt.lastType, ty)
       IN  fmt' = IF IndexOf(ln, <<"<","?","x","m","l">>) # -1
                  THEN [fmt EXCEPT !.i = @ + 1, !.formatted = @ \o ln \o <<"\n">>]
                  ELSE [fmt EXCEPT
                           !.i = @ + 1,
                           !.lastType = ty,
                           !.indent = to,
                           !.formatted =
                               IF fmt.lastType = "opening" /\ ty = "closing"
                               THEN SubSeq(@, 1, Len(@) - 1) \o ln \o <<"\n">>
                               ELSE @ \o Spaces(to) \o ln \o <<"\n">>]
    /\ UNCHANGED <<amf, schema, mime, opts0, opts, value, type, pc, result, payloads,
                   xmlDoc, log, stack>>

\* return formatted;
FormatXmlReturn ==
    /\ pc = "lines"
    /\ fmt.i > Len(fmt.lines)
    /\ result' = Str(fmt.formatted)
    /\ pc' = "done"
    /\ UNCHANGED <<amf, schema, mime, opts0, opts, value, type, payloads, xmlDoc, log,
                   fmt, stack>>

NextFormat ==
    \/ FormatXmlBegin
    \/ FormatXmlText
    \/ FormatXmlLine
    \/ FormatXmlReturn

SpecFormat == InitFormat /\ [][NextFormat]_vars


(***************************************************************************)
(* The XML declaration and the indentation of formatXml                    *)
(***************************************************************************)
\* The pairs (previous line type, current line type) that move the indent.
Raises == {<<"opening", "single">>, <<"opening", "opening">>, <<"opening", "other">>}
Lowers == {<<"single", "closing">>, <<"closing", "closing">>, <<"other", "closing">>}
IndentChange(from, to) ==
    IF <<from, to>> \in Raises THEN 2
    ELSE IF <<from, to>> \in Lowers THEN -2
    ELSE 0

\* The line the loop is at, and whether it is the declaration.
TheLine == fmt.lines[fmt.i]
IsDeclaration(ln) == IndexOf(ln, <<"<","?","x","m","l">>) # -1

\* One pass of the loop over a line that is not the declaration.
IndentsLine ==
    /\ pc = "lines" /\ pc' = "lines"
    /\ ~IsDeclaration(TheLine)

\* The text formatted so far, one line per entry, the line break that ends
\* the text left out.
FormattedLines(f) ==
    IF f.formatted = <<>> THEN <<>>
    ELSE Split(SubSeq(f.formatted, 1, Len(f.formatted) - 1), "\n")

\* C26: every synthesized XML value begins with the XML declaration, and
\* each pass of formatXml's loop moves the indent by what the pair (previous
\* line type, current line type) says: +2 for opening->single,
\* opening->opening and opening->other, -2 for single->closing,
\* closing->closing and other->closing, 0 for the other ten pairs; the line
\* is written after that many spaces on a line of its own, except that a
\* closing line right after an opening line is appended to the opening line.
C26_FormatStateMachine ==
    /\ []((pc = "done" /\ schema # <<>> /\ result # Throw) =>
             /\ Len(result.s) >= Len(XmlDeclaration)
             /\ SubSeq(result.s, 1, Len(XmlDeclaration)) = XmlDeclaration)
    /\ [][IndentsLine =>
             LET from == fmt.lastType
                 to == fmt'.lastType
                 before == FormattedLines(fmt)
                 after == FormattedLines(fmt')
             IN  /\ to = LineType(TheLine)
                 /\ fmt'.indent - fmt.indent = IndentChange(from, to)
                 /\ IF from = "opening" /\ to = "closing"
                    THEN /\ Len(after) = Len(before)
                         /\ after[Len(after)] = before[Len(before)] \o TheLine
                         /\ SubSeq(after, 1, Len(after) - 1)
                              = SubSeq(before, 1, Len(before) - 1)
                    ELSE after = before \o <<Spaces(fmt'.indent) \o TheLine>>]_vars

\* A formatted document of five lines or more in which the indent went up
\* and came back to zero, and a closing line was appended to its opening line.
C26_Witness ==
    /\ pc = "done" /\ schema # <<>> /\ result # Throw
    /\ Len(fmt.lines) >= 5
    /\ fmt.indent = 0 /\ fmt.lastType = "closing"
    /\ IndexOf(result.s, <<"\n"," "," ","<">>) # -1
    /\ \E k \in 1..(Len(fmt.lines) - 1) :
          /\ LineType(fmt.lines[k]) = "opening"
          /\ LineType(fmt.lines[k + 1]) = "closing"
          /\ Len(FormattedLines(fmt)) < Len(fmt.lines)


(***************************************************************************)
(* The calls of the engine, one call and one return at a time              *)
(*                                                                         *)
(* A frame is a call that has not returned: the function, its arguments    *)
(* as the caller passed them, and `via`, the edge of the graph the caller  *)
(* followed to get the node it passes ("same": it passes on the node, or   *)
(* the edge list, it was given itself).  Calls(f) lists the calls the body *)
(* of f makes, in order, to the functions that walk the graph.             *)
(***************************************************************************)
Frame(fn, via, args) == [fn |-> fn, via |-> via, args |-> args]

\* The document and the element a call of the XML builder is handed.
XmlArgs(doc, node) == [doc |-> doc, node |-> node]

\* A call site in a body: the call, the outcome of it after which the body
\* makes no further call (it returns, or the call threw), and for an item of
\* a wrapped array the element created for the item just before the call.
Site(fn, via, args, stop) ==
    [frame |-> Frame(fn, via, args), stop |-> stop, wrap |-> <<>>, from |-> Undef]

\* A call site after which the body goes on whatever the call gives.
Call(fn, via, args) == Site(fn, via, args, "returns")

\* The sites of a body whose first call is handed `carry`: the options
\* object, or the document and the element, that the calls hand on.
From(sites, carry) == [k \in 1..Len(sites) |-> [sites[k] EXCEPT !.from = carry]]

\* What a call gives back, for the calls whose outcome decides what their
\* caller does next: the options object or the document is handed on to the
\* next call as this one left it.
Outcome(f) ==
    LET a == f.args
    IN  CASE f.fn = "computeExamples" -> computeExamples(a[1], a[2], a[3])
          [] f.fn = "_computeExampleArraySchape" ->
                _computeExampleArraySchape(a[1], a[2], a[3])
          [] f.fn = "_generateFromExample" -> _generateFromExample(a[1], a[2], a[3])
          [] f.fn = "_xmlProcessProperty" -> _xmlProcessProperty(a[1].doc, a[1].node, a[2])
          [] f.fn = "_xmlProcessDataProperty" ->
                _xmlProcessDataProperty(a[1].doc, a[1].node, a[2], a[3])
          [] OTHER -> Undef

Stops(stop, out) ==
    CASE stop = "throws" -> out = Throw
      [] stop = "gives a list" -> out.ret = Throw \/ out.ret.t = "array"
      [] stop = "gives an empty list" ->
            out.ret = Throw \/ (out.ret.t = "array" /\ out.ret.items = <<>>)
      [] stop = "gives a value" -> out.ret = Throw \/ Truthy(out.ret)
      [] stop = "gives an example" -> out = Throw \/ ~IsUndef(out)
      [] OTHER -> FALSE

\* The statements of a wrapped array's loop before the call: element =
\* doc.createElement(name); node.appendChild(element); node = element.
Wrapping(site, carry) ==
    IF site.wrap = <<>> THEN carry
    ELSE LET d1 == createElement(carry.doc, site.wrap)
             d2 == IF d1 = Throw THEN Throw ELSE appendChild(d1, carry.node, Created(d1))
         IN  IF d2 = Throw THEN Throw ELSE XmlArgs(d2, Created(d1))

\* The call of a site with what the calls before it have left: the options
\* object, or the document and the element.
Handed(f, carry) ==
    CASE carry = Undef -> f
      [] f.fn \in {"computeExamples", "_generateFromExample", "_computeUnionExamples"} ->
            [f EXCEPT !.args[3] = carry]
      [] f.fn = "_exampleFromProperties" ->
            [f EXCEPT !.args[3] = carry.typeName, !.args[4] = carry.parentName]
      [] f.fn \in {"_xmlProcessProperty", "_xmlProcessDataProperty"} ->
            [f EXCEPT !.args[1] = carry]
      [] OTHER -> f
Left(f, out, carry) ==
    CASE carry = Undef -> Undef
      [] f.fn \in {"computeExamples", "_computeExampleArraySchape"} -> out.opts
      [] f.fn \in {"_xmlProcessProperty", "_xmlProcessDataProperty"} ->
            XmlArgs(out, carry.node)
      [] OTHER -> carry

\* The calls made at the sites of a body, from site i on, each with what it
\* gives back.
RECURSIVE Made(_, _, _)
Made(sites, i, carry) ==
    IF i > Len(sites) THEN <<>>
    ELSE Let(Wrapping(sites[i], carry),
             LAMBDA at :
                 IF at = Throw THEN <<>>
                 ELSE Let(Handed(sites[i].frame, at),
                          LAMBDA f :
                              Let(Outcome(f),
                                  LAMBDA out :
                                      <<[fn |-> f.fn, via |-> f.via, args |-> f.args,
                                         gives |-> out]>>
                                      \o IF Stops(sites[i].stop, out) THEN <<>>
                                         ELSE Made(sites, i + 1, Left(f, out, at)))))

\* _jsonFromStructure(structure): one _jsonFromStructureValue per member, or
\* per data-prefixed key.
Calls_jsonFromStructure(structure) ==
    IF _hasType(structure, "Scalar") THEN <<>>
    ELSE IF ~(_hasType(structure, "Object") \/ _hasType(structure, "Array")) THEN <<>>
    ELSE IF _hasType(structure, "Array") /\ ~_hasType(structure, "Object")
            /\ structure.member # <<>>
    THEN [k \in 1..Len(structure.member) |->
             Call("_jsonFromStructureValue", "member", <<structure.member[k]>>)]
    ELSE LET keys == SelectSeq(structure.props,
                         LAMBDA p : IndexOf(p.key, _getAmfKey(DataNs)) = 0)
         IN  [k \in 1..Len(keys) |->
                 Call("_jsonFromStructureValue", "key", <<keys[k].node>>)]

\* _jsonExampleFromProperties(properties): per property with a name and a
\* range, _jsonFromStructure for every example of the range that has a
\* structured value, or else _computeJsonProperyValue(range).
RECURSIVE CallsJsonFromProperties(_, _)
CallsJsonFromProperties(properties, i) ==
    IF i > Len(properties) THEN <<>>
    ELSE LET property == properties[i]
             range == property.range
             examples == SelectSeq(range[1].examples,
                             LAMBDA e : e.structuredValue # <<>>)
         IN  (IF ~Truthy(property.name) \/ range = <<>> THEN <<>>
              ELSE IF range[1].examples # <<>>
              THEN [k \in 1..Len(examples) |->
                       Call("_jsonFromStructure", "range.examples.structuredValue",
                             <<examples[k].structuredValue[1]>>)]
              ELSE <<Call("_computeJsonProperyValue", "range", <<range[1], Undef>>)>>)
             \o CallsJsonFromProperties(properties, i + 1)

\* _computeJsonProperyValue(range, typeName)
Calls_computeJsonProperyValue(range, typeName) ==
    IF _hasType(range, "ScalarShape") THEN <<>>
    ELSE IF _hasType(range, "UnionShape")
    THEN <<Call("_computeJsonUnionValue", "same", <<range, typeName>>)>>
    ELSE IF _hasType(range, "NodeShape")
    THEN <<Call("_computeJsonObjectValue", "same", <<range>>)>>
    ELSE IF _hasType(range, "ArrayShape")
    THEN <<Call("_computeJsonArrayValue", "same", <<range>>)>>
    ELSE <<>>

\* _computeJsonUnionValue(range, typeName): the properties of the first
\* alternative that is an object with properties (and has the name asked for).
Calls_computeJsonUnionValue(range, typeName) ==
    LET fits(item) == /\ ~(Truthy(typeName) /\ typeName # item.name)
                      /\ _hasType(item, "NodeShape") /\ item.property # <<>>
        hits == {k \in 1..Len(range.anyOf) : fits(range.anyOf[k])}
    IN  IF hits = {} THEN <<>>
        ELSE LET k == CHOOSE h \in hits : \A j \in hits : h <= j
             IN  <<Call("_jsonExampleFromProperties", "anyOf",
                         <<range.anyOf[k].property>>)>>

\* _computeJsonObjectValue(range)
Calls_computeJsonObjectValue(range) ==
    IF range.property # <<>>
    THEN <<Call("_jsonExampleFromProperties", "same", <<range.property>>)>>
    ELSE <<>>

\* _computeJsonArrayValue(range): one _computeJsonProperyValue per item.
Calls_computeJsonArrayValue(range) ==
    [k \in 1..Len(range.items) |->
        Call("_computeJsonProperyValue", "items", <<range.items[k], Undef>>)]

\* _xmlProcessDataProperty(doc, node, property, name)
Calls_xmlProcessDataProperty(doc, node, property, name) ==
    IF name = <<>> \/ createElement(doc, _normalizeXmlTagName(name)) = Throw THEN <<>>
    ELSE LET d1 == createElement(doc, _normalizeXmlTagName(name))
             to == XmlArgs(d1, Created(d1))
         IN  IF _hasType(property, "Scalar") THEN <<>>
             ELSE IF _hasType(property, "Array")
             THEN <<Call("_processDataArrayProperties", "same",
                          <<to, property, _normalizeXmlTagName(name)>>)>>
             ELSE IF _hasType(property, "Object")
             THEN <<Call("_processDataObjectProperties", "same", <<to, property>>)>>
             ELSE <<>>

\* The data-prefixed keys of a structured value: a call of
\* _xmlProcessDataProperty for each, under the name _dataNameFromKey gives.
DataSites(to, props) ==
    LET keys == SelectSeq(props, LAMBDA p : IndexOf(p.key, _getAmfKey(DataNs)) = 0)
    IN  [k \in 1..Len(keys) |->
            Site("_xmlProcessDataProperty", "key",
                 <<to, keys[k].node, _dataNameFromKey(keys[k].key)>>, "throws")]

\* _processDataArrayProperties(doc, node, property, name)
Calls_processDataArrayProperties(doc, node, property, name) ==
    LET n == Len(name)
        childName == IF n >= 2 /\ SubSeq(name, n - 1, n) = <<"e", "s">>
                     THEN SubSeq(name, 1, n - 2)
                     ELSE IF n >= 1 /\ name[n] = "s" THEN SubSeq(name, 1, n - 1)
                     ELSE name
        to == XmlArgs(doc, node)
    IN  From([k \in 1..Len(property.member) |->
                 Site("_xmlProcessDataProperty", "member",
                      <<to, property.member[k], childName>>, "throws")], to)

\* _processDataObjectProperties(doc, node, property)
Calls_processDataObjectProperties(doc, node, property) ==
    From(DataSites(XmlArgs(doc, node), property.props), XmlArgs(doc, node))

\* _xmlFromStructure(structure, opts)
Calls_xmlFromStructure(structure, o) ==
    LET typeName == IF Truthy(o.typeName) THEN o.typeName.s ELSE UNKNOWN_TYPE
        doc == createDocument(_normalizeXmlTagName(typeName))
    IN  IF doc = Throw THEN <<>>
        ELSE From(DataSites(XmlArgs(doc, doc.root), structure.props),
                  XmlArgs(doc, doc.root))

\* for (i...) this._xmlProcessProperty(doc, node, properties[i])
PropertySites(to, properties) ==
    [k \in 1..Len(properties) |->
        Site("_xmlProcessProperty", "property", <<to, properties[k]>>, "throws")]

\* _xmlProcessProperty(doc, node, property)
Calls_xmlProcessProperty(doc, node, property) ==
    IF "NodeShape" \in TypesOf(property)
    THEN From(PropertySites(XmlArgs(doc, node), property.property), XmlArgs(doc, node))
    ELSE IF RangeOf(property) = <<>> THEN <<>>
    ELSE LET range == RangeOf(property)[1]
             serialization == IF range.xmlSerialization = <<>> THEN XmlSerialization
                              ELSE range.xmlSerialization[1]
             isWrapped == Truthy(serialization.xmlWrapped)
             to == XmlArgs(doc, node)
         IN  IF range.examples # <<>>
             THEN <<Call("_xmlFromExamples", "range.examples",
                          <<to, range.examples[1],
                            IF Truthy(serialization.xmlName) THEN serialization.xmlName
                            ELSE range.name>>)>>
             ELSE IF _hasType(range, "UnionShape")
             THEN IF range.anyOf = <<>> \/ _hasType(range.anyOf[1], "ScalarShape")
                  THEN <<>>
                  ELSE <<Call("_xmlProcessProperty", "range.anyOf",
                               <<to, range.anyOf[1]>>)>>
             ELSE IF Truthy(serialization.xmlAttribute) THEN <<>>
             ELSE IF _hasType(range, "NodeShape")
             THEN <<Call("_appendXmlElements", "range", <<to, property, range>>)>>
             ELSE IF _hasType(range, "ArrayShape")
             THEN <<Call("_appendXmlArray", "range",
                          <<to, property, range, isWrapped>>)>>
             ELSE <<>>

\* _xmlFromExamples(doc, node, example, propertyName)
Calls_xmlFromExamples(doc, node, example, propertyName) ==
    IF example.structuredValue = <<>> THEN <<>>
    ELSE <<Call("_xmlProcessDataProperty", "structuredValue",
                 <<XmlArgs(doc, node), example.structuredValue[1],
                   IF Truthy(propertyName) THEN propertyName.s ELSE <<>>>>)>>

\* _appendXmlElements(doc, node, property, range)
Calls_appendXmlElements(doc, node, property, range) ==
    LET r == _appendXmlElement(doc, node, range)
    IN  IF r = Throw THEN <<>>
        ELSE From(PropertySites(XmlArgs(r.doc, r.element), range.property),
                  XmlArgs(r.doc, r.element))

\* _appendXmlArray(doc, node, property, range, isWrapped): a wrapped item
\* without a name is skipped, one with a name gets its element first.
Calls_appendXmlArray(doc, node, property, range, isWrapped) ==
    LET r == _appendXmlElement(doc, node, range)
        d == IF r = Throw THEN Throw ELSE appendChild(r.doc, node, r.element)
        to == IF isWrapped /\ d # Throw THEN XmlArgs(d, r.element) ELSE XmlArgs(doc, node)
        items == IF isWrapped
                 THEN SelectSeq(range.items, LAMBDA item : Truthy(item.name))
                 ELSE range.items
    IN  IF isWrapped /\ d = Throw THEN <<>>
        ELSE From([k \in 1..Len(items) |->
                      [Site("_xmlProcessProperty", "items", <<to, items[k]>>, "throws")
                          EXCEPT !.wrap = IF isWrapped THEN items[k].name.s ELSE <<>>]],
                  to)

\* _xmlExampleFromProperties(properties, typeName, parentType)
Calls_xmlExampleFromProperties(properties, typeName, parentType) ==
    LET tn == _normalizeXmlTagName(typeName)
        pt == IF Truthy(parentType) THEN _normalizeXmlTagName(parentType.s) ELSE <<>>
        doc == createDocument(IF pt # <<>> THEN pt ELSE tn)
        d1 == IF doc = Throw \/ pt = <<>> THEN doc ELSE createElement(doc, tn)
        d2 == IF d1 = Throw \/ pt = <<>> THEN d1 ELSE appendChild(d1, d1.root, Created(d1))
        to == XmlArgs(d2, IF pt # <<>> THEN Created(d1) ELSE d2.root)
    IN  IF d2 = Throw THEN <<>> ELSE From(PropertySites(to, properties), to)

\* _exampleFromProperties(properties, mime, typeName, parentType)
Calls_exampleFromProperties(properties, m, typeName, parentType) ==
    IF IndexOf(m.s, S_json) # -1
    THEN <<Call("_jsonExampleFromProperties", "same", <<properties>>)>>
    ELSE IF IndexOf(m.s, S_xml) # -1
    THEN <<Call("_xmlExampleFromProperties", "same",
                 <<properties, IF Truthy(typeName) THEN typeName.s ELSE UNKNOWN_TYPE,
                   parentType>>)>>
    ELSE <<>>

\* _exampleFromJsonSchema(schema, jsonSchema)
Calls_exampleFromJsonSchema(s, jsonSchema) ==
    IF s.property = <<>> THEN <<>>
    ELSE <<Call("_exampleFromProperties", "same",
                 <<s.property,
                   Str(<<"a","p","p","l","i","c","a","t","i","o","n","/">> \o S_json),
                   Str(IF Truthy(s.name) THEN s.name.s ELSE UNKNOWN_TYPE), Undef>>)>>

\* _generateFromExample(example, mime, opts): a structured value that is not
\* a scalar is rendered by _jsonFromStructure or _xmlFromStructure, unless
\* the example is answered from its raw value.
Calls_generateFromExample(example, m, o) ==
    LET raw == example.raw
        hasRaw == Truthy(raw)
        isJson == IndexOf(m.s, S_json) # -1
        isXml == ~isJson /\ IndexOf(m.s, S_xml) # -1
    IN  IF o.rawOnly THEN <<>>
        ELSE IF hasRaw /\ isJson
                /\ JSONparseTypeof(raw.s) \notin {"error", "string", "number", "boolean"}
        THEN <<>>
        ELSE IF hasRaw /\ isXml /\ Trim(raw.s) # <<>> /\ Trim(raw.s)[1] = "<" THEN <<>>
        ELSE IF example.structuredValue = <<>> THEN <<>>
        ELSE IF _hasType(example.structuredValue[1], "Scalar") THEN <<>>
        ELSE IF isJson
        THEN <<Call("_jsonFromStructure", "structuredValue",
                     <<example.structuredValue[1]>>)>>
        ELSE IF isXml
        THEN <<Call("_xmlFromStructure", "structuredValue",
                     <<example.structuredValue[1], o>>)>>
        ELSE <<>>

\* _computeFromExamples(examples, mime, opts): one _generateFromExample per
\* listed example.
Calls_computeFromExamples(examples, m, o) ==
    LET listed == _listTypeExamples(_processExamples(examples), o.typeId)
    IN  IF listed.t # "array" THEN <<>>
        ELSE From([k \in 1..Len(listed.items) |->
                      Site("_generateFromExample", "examples",
                           <<listed.items[k], m, o>>, "throws")], o)

\* _computeExampleArraySchape as a recursion over the items: the first item,
\* then the array of the items after it.
Calls_computeExampleArraySchape_overRest(s, m, o) ==
    IF s.items = <<>> THEN <<>>
    ELSE From(<<Site("computeExamples", "items", <<<<s.items[1]>>, m, o>>, "gives a list"),
                Site("_computeExampleArraySchape", "items",
                     <<[s EXCEPT !.items = Tail(@)], m, o>>, "returns")>>,
              [o EXCEPT !.parentName = o.typeName, !.typeName = Undef])

\* _computeExampleArraySchape(schema, mime, opts): the loop ends with the
\* first item that gives a list.
Calls_computeExampleArraySchape(s, m, o) ==
    From([k \in 1..Len(s.items) |->
             Site("computeExamples", "items", <<<<s.items[k]>>, m, o>>, "gives a list")],
         [o EXCEPT !.parentName = o.typeName, !.typeName = Undef])

\* _computeUnionExamples(schema, mime, opts): data[0] of an empty list is
\* undefined, and setting hasTitle on it throws.
Calls_computeUnionExamples(s, m, o) ==
    From([k \in 1..Len(s.anyOf) |->
             Site("computeExamples", "anyOf", <<<<s.anyOf[k]>>, m, o>>,
                  "gives an empty list")], o)

\* computeExamples(schema, mime, opts): array handling, the Example test,
\* and the union or the declared properties, each with the options object
\* as the call before has left it.
Calls_computeExamples(sch, m, o) ==
    IF sch = <<>> \/ (~Truthy(m) /\ ~o.rawOnly) THEN <<>>
    ELSE LET s == sch[1]
             o1 == IF ~Truthy(o.typeName) /\ Truthy(s.name)
                      /\ IndexOf(s.name.s, S_amf_inline_type) # 0
                   THEN [o EXCEPT !.typeName = s.name] ELSE o
         IN  IF s.examples # <<>>
             THEN <<Call("_computeFromExamples", "same", <<s.examples, m, o1>>)>>
             ELSE IF Truthy(s.jsonSchema)
             THEN <<Call("_exampleFromJsonSchema", "same", <<s, s.jsonSchema>>)>>
             ELSE IF o1.rawOnly THEN <<>>
             ELSE From(
                 (IF _hasType(s, "ArrayShape")
                  THEN <<Site("_computeExampleArraySchape", "same", <<s, m, o1>>,
                              "gives a value")>>
                  ELSE <<>>)
                 \o (IF _hasType(s, "Example")
                     THEN <<Site("_generateFromExample", "same", <<s, m, o1>>,
                                 "gives an example")>>
                     ELSE <<>>)
                 \o (IF _hasType(s, "UnionShape")
                     THEN <<Site("_computeUnionExamples", "same", <<s, m, o1>>, "returns")>>
                     ELSE IF o1.noAuto \/ _hasType(s, "ScalarShape") THEN <<>>
                     ELSE IF s.property # <<>>
                     THEN <<Site("_exampleFromProperties", "same",
                                 <<s.property, m, o1.typeName, o1.parentName>>,
                                 "returns")>>
                     ELSE <<>>),
                  o1)

\* The call sites in the body of the call f.
Sites(f) ==
    LET a == f.args
    IN  CASE f.fn = "computeExamples" -> Calls_computeExamples(a[1], a[2], a[3])
          [] f.fn = "_computeFromExamples" -> Calls_computeFromExamples(a[1], a[2], a[3])
          [] f.fn = "_generateFromExample" -> Calls_generateFromExample(a[1], a[2], a[3])
          [] f.fn = "_exampleFromJsonSchema" -> Calls_exampleFromJsonSchema(a[1], a[2])
          [] f.fn = "_computeExampleArraySchape" ->
                Calls_computeExampleArraySchape(a[1], a[2], a[3])
          [] f.fn = "_computeUnionExamples" -> Calls_computeUnionExamples(a[1], a[2], a[3])
          [] f.fn = "_exampleFromProperties" ->
                Calls_exampleFromProperties(a[1], a[2], a[3], a[4])
          [] f.fn = "_jsonExampleFromProperties" -> CallsJsonFromProperties(a[1], 1)
          [] f.fn = "_computeJsonProperyValue" -> Calls_computeJsonProperyValue(a[1], a[2])
          [] f.fn = "_computeJsonUnionValue" -> Calls_computeJsonUnionValue(a[1], a[2])
          [] f.fn = "_computeJsonObjectValue" -> Calls_computeJsonObjectValue(a[1])
          [] f.fn = "_computeJsonArrayValue" -> Calls_computeJsonArrayValue(a[1])
          [] f.fn = "_jsonFromStructure" -> Calls_jsonFromStructure(a[1])
          [] f.fn = "_jsonFromStructureValue" ->
                <<Call("_jsonFromStructure", "same", <<a[1]>>)>>
          [] f.fn = "_xmlFromStructure" -> Calls_xmlFromStructure(a[1], a[2])
          [] f.fn = "_xmlProcessDataProperty" ->
                Calls_xmlProcessDataProperty(a[1].doc, a[1].node, a[2], a[3])
          [] f.fn = "_processDataArrayProperties" ->
                Calls_processDataArrayProperties(a[1].doc, a[1].node, a[2], a[3])
          [] f.fn = "_processDataObjectProperties" ->
                Calls_processDataObjectProperties(a[1].doc, a[1].node, a[2])
          [] f.fn = "_xmlExampleFromProperties" ->
                Calls_xmlExampleFromProperties(a[1], a[2], a[3])
          [] f.fn = "_xmlProcessProperty" ->
                Calls_xmlProcessProperty(a[1].doc, a[1].node, a[2])
          [] f.fn = "_xmlFromExamples" ->
                Calls_xmlFromExamples(a[1].doc, a[1].node, a[2], a[3])
          [] f.fn = "_appendXmlElements" ->
                Calls_appendXmlElements(a[1].doc, a[1].node, a[2], a[3])
          [] f.fn = "_appendXmlArray" ->
                Calls_appendXmlArray(a[1].doc, a[1].node, a[2], a[3], a[4])

\* The calls made at the sites of a body, each as it stands when it is
\* entered: the call, what it gives back, the calls its own body makes, and
\* the next of them to make.  The engine has no input but its arguments, so
\* the calls a body makes are settled when the call is.
RECURSIVE Entered(_)
Entered(sites) ==
    Let(IF sites = <<>> THEN <<>> ELSE Made(sites, 1, sites[1].from),
        LAMBDA made :
            [k \in 1..Len(made) |->
                [fn |-> made[k].fn, via |-> made[k].via, args |-> made[k].args,
                 gives |-> made[k].gives, calls |-> Entered(Sites(made[k])), next |-> 1]])

\* Shapes nested several levels deep, for both representations: an object
\* whose property is an array of a union of an object of an object, an array
\* of three item types side by side, and an object whose author example
\* holds an object in a list in an object.
Towers ==
    LET leaf == [Scalar(<<XmlSchema(N_string)>>, <<>>) EXCEPT !.name = Str(PropertyNames[3])]
        holds(n, x) == Object(<<[name |-> Str(PropertyNames[n]), range |-> <<x>>]>>)
        inner == [holds(1, [holds(3, leaf) EXCEPT !.name = Str(PropertyNames[2])])
                     EXCEPT !.name = T_Pet]
        list == [Array(<<inner>>) EXCEPT !.name = Str(N_tags)]
        data == [D_object EXCEPT !.props =
                     <<[key |-> DataKey(N_tags),
                        node |-> [D_array EXCEPT !.member = <<D_object, D_five>>]]>>]
    IN  {holds(1, list), holds(1, Union(<<inner, leaf>>)), holds(2, Array(<<Union(<<inner>>)>>)),
         Array(<<list>>), Array(<<Object(<<>>), Object(<<>>), leaf>>), Union(<<list, inner>>),
         [Object(<<>>) EXCEPT !.examples = <<ExampleNode(Undef, Undef, <<data>>, NoSources)>>],
         holds(1, [leaf EXCEPT !.examples =
                                  <<ExampleNode(Undef, Undef, <<data>>, NoSources)>>])}

DescentSchemas ==
    {<<x>> : x \in Towers \cup Deep \cup UnionsOfObjects \cup WithRangeExamples
                   \cup WithJsonSchema \cup XmlExamples
                   \cup {Object(<<p>>) : p \in XmlProperties}
                   \cup {[Object(<<>>) EXCEPT !.examples = l] : l \in ExampleLists}}

DescentOptions ==
    [rawOnly : BOOLEAN, noAuto : {FALSE}, typeId : {Undef}, typeName : {Undef, T_Pet},
     parentName : {Undef}]

InitDescent ==
    /\ amf \in BOOLEAN
    /\ schema \in DescentSchemas
    /\ mime \in {T_json, T_xml}
    /\ opts0 \in DescentOptions
    /\ opts = opts0
    /\ value = Undef
    /\ type = Undef
    /\ pc = "ready"
    /\ result = Undef
    /\ payloads = Undef
    /\ xmlDoc = Undef
    /\ log = <<>>
    /\ fmt = Undef
    /\ stack = <<>>

Running == stack[Len(stack)]

\* generator.computeExamples(schema, mime, opts), by the caller of the
\* generator
CallComputeExamples ==
    /\ pc = "ready"
    /\ stack' = Entered(<<Call("computeExamples", "call", <<schema, mime, opts>>)>>)
    /\ pc' = "running"
    /\ UNCHANGED <<amf, schema, mime, opts0, opts, value, type, result, payloads, xmlDoc,
                   log, fmt>>

\* the running call makes the next call of its body
EnterCall ==
    /\ pc = "running"
    /\ Running.next <= Len(Running.calls)
    /\ stack' = Append([stack EXCEPT ![Len(stack)].next = @ + 1],
                       Running.calls[Running.next])
    /\ UNCHANGED <<amf, schema, mime, opts0, opts, value, type, pc, result, payloads,
                   xmlDoc, log, fmt>>

\* the running call has made its calls and returns (or throws) to its caller
ReturnFromCall ==
    /\ pc = "running"
    /\ Running.next > Len(Running.calls)
    /\ Len(stack) > 1
    /\ stack' = SubSeq(stack, 1, Len(stack) - 1)
    /\ UNCHANGED <<amf, schema, mime, opts0, opts, value, type, pc, result, payloads,
                   xmlDoc, log, fmt>>

\* computeExamples returns (or throws) to the caller of the generator
ReturnComputeExamples ==
    /\ pc = "running"
    /\ Running.next > Len(Running.calls)
    /\ Len(stack) = 1
    /\ stack' = <<>>
    /\ result' = Running.gives.ret
    /\ opts' = Running.gives.opts
    /\ pc' = "done"
    /\ UNCHANGED <<amf, schema, mime, opts0, value, type, payloads, xmlDoc, log, fmt>>

\* A step of the engine while a call of it runs.
StepDescent ==
    \/ EnterCall
    \/ ReturnFromCall
    \/ ReturnComputeExamples

NextDescent ==
    \/ CallComputeExamples
    \/ StepDescent

SpecDescent == InitDescent /\ [][NextDescent]_vars

\* The engine runs on one thread and none of its steps waits: a call that has
\* been entered goes on to its next call or to its return.  Whether the
\* generator is called at all is up to its caller.
SpecDescentFair == SpecDescent /\ WF_vars(StepDescent)


(***************************************************************************)
(* Termination and the depth of the recursion                              *)
(***************************************************************************)
\* The nodes an edge of the graph leads to from the node n: item types,
\* alternatives, property shapes and their ranges, example nodes, structured
\* values and their entries and members.
ChildrenOf(n) ==
    LET ends(field) == IF field \in DOMAIN n
                       THEN {n[field][k] : k \in 1..Len(n[field])} ELSE {}
    IN  ends("items") \cup ends("anyOf") \cup ends("property") \cup ends("range")
          \cup ends("examples") \cup ends("structuredValue") \cup ends("member")
          \cup (IF "props" \in DOMAIN n THEN {n.props[k].node : k \in 1..Len(n.props)}
                ELSE {})

Greatest(S) == IF S = {} THEN 0 ELSE CHOOSE x \in S : \A y \in S : y <= x

\* The nesting depth of the graph under n: the nodes on its longest path.
RECURSIVE NestingDepth(_)
NestingDepth(n) == 1 + Greatest({NestingDepth(c) : c \in ChildrenOf(n)})

\* The depth of the recursion: the calls on the stack that were handed a
\* node reached by an edge, the call of computeExamples itself included.
RecursionDepth == Cardinality({k \in 1..Len(stack) : stack[k].via # "same"})

\* C21: for every (finite, acyclic) shape graph a call of computeExamples
\* terminates, and while it runs the depth of its recursion through item
\* types, alternatives, property ranges and structured values never exceeds
\* the nesting depth of the graph.
C21_TerminatesWithinDepth ==
    /\ [](RecursionDepth <= NestingDepth(schema[1]))
    /\ (pc = "running") ~> (pc = "done")

\* The recursion is four nodes deep or more, below a union alternative, an
\* item type, a property range or a structured value.
C21_Witness ==
    /\ pc = "running"
    /\ RecursionDepth >= 4
    /\ RecursionDepth >= NestingDepth(schema[1]) - 2

====
